---- MODULE Spec2Model ----
(***************************************************************************)
(* A model of commit.c: the commit parser with its graft overlay and       *)
(* object table, the commit-list primitives, the mark scrubber, the        *)
(* topological sorter and the merge-base engine.                           *)
(*                                                                         *)
(* A commit handle is a positive integer, NULL is 0.  The flag word of a   *)
(* commit is the set of the numbers of its set bits, so `flags & mask' is  *)
(* an intersection and `flags |= mask' a union.  A commit list is the      *)
(* sequence of its items, head first.                                      *)
(***************************************************************************)
EXTENDS Integers, Sequences, FiniteSets, TLC

\* ------------------------------------------------------------------ bounds
\* Commits of the history handed to the merge-base engine.
NumCommits == 4
\* Commit dates are drawn from 1..MaxDate.
MaxDate == 2
\* Merge-base queries made on one history.
MaxQueries == 1
\* Commits of the history a list handed to the topological sorter is drawn from.
TopoCommits == 3
\* Longest parent list of a commit of that history (a parent may repeat).
TopoParents == 2
\* Object identifiers are 1..MaxId; hashcmp orders them as numbers.
MaxId == 3
\* Most lines of a graft file.
MaxFileLines == 2
\* Most entries the graft array is let grow to.
MaxGrafts == 3
\* Commits of the lists handed to sort_by_date, and the longest such list.
SortCommits == 3
MaxSortLen == 4
\* Longest line handed to add_rfc2047.
MaxLineLen == 3
\* Longest commit message handed to pretty_print_commit.
MaxMsgLen == 5
\* Commits of the parent graphs, cycles included, that the mark scrubber walks.
WalkCommits == 3
\* Commits and parent edges of the parent graphs, cycles included, that
\* get_merge_bases is stepped on.
BaseCommits == 4
MaxEdges == 4
\* Lookup, parse and graft calls of one run of the parser.
MaxOps == 4

\* --------------------------------------------------------------- constants
NULL == 0
PARENT1 == 16
PARENT2 == 17
STALE == 18
RESULT == 19
all_flags == {PARENT1, PARENT2, STALE, RESULT}

VARIABLES
    parents,    \* commit->parents: handle -> sequence of handles
    date,       \* commit->date
    flags,      \* commit->object.flags: handle -> set of bit numbers
    mb,         \* the merge-base call in progress, with what it returned
    queries,    \* merge-base queries made so far
    util,       \* commit->util: NULL, or the index of a sort_node of the call
    tlist,      \* the commit list handed to the sorter (its *list), head first
    ts,         \* the last sort_in_topological_order call
    commit_graft,           \* the live part of the graft array, in array order
    commit_graft_prepared,  \* prepare_commit_graft's static flag
    graft_file, \* the lines of the repository's graft file
    gr,         \* the graft-table call in progress, with what it returned
    obj_hash,   \* the object table: handle -> [sha1, type], in allocation order
    parsed,     \* object.parsed of every handle
    tree,       \* commit->tree of every handle: a handle or NULL
    pr,         \* the lookup or parse call in progress, with what it returned
    looked_up,  \* history: the <<sha1, handle>> pairs lookup_commit has returned
    failed,     \* history: the handles a parse call has failed on
    ops,        \* lookup, parse and graft calls made so far
    pp,         \* the pretty-printer call in progress, with what it appended
    cm          \* the clear_commit_marks call in progress: its frames

graphVars == <<parents, date>>
mbVars    == <<flags, mb, queries>>
topoVars  == <<util, tlist, ts>>
graftVars == <<commit_graft, commit_graft_prepared, graft_file, gr>>
objVars   == <<obj_hash, parsed, tree, pr, looked_up, failed, ops>>

stepVars  == <<pp, cm>>

vars == <<graphVars, mbVars, topoVars, graftVars, objVars, stepVars>>

Range(s) == { s[i] : i \in 1..Len(s) }

SetMin(S) == CHOOSE x \in S : \A y \in S : x <= y

\* ----------------------------------------------------- commit-list primitives

InsertAtHead(item, list) == <<item>> \o list

\* insert_by_date: before the first cell whose item is strictly older.
insert_by_date(item, list) ==
    LET older == { i \in 1..Len(list) : date[list[i]] < date[item] }
        pos   == IF older = {} THEN Len(list) + 1 ELSE SetMin(older)
    IN  SubSeq(list, 1, pos - 1) \o <<item>> \o SubSeq(list, pos, Len(list))

\* ---------------------------------------------------------------- mark scrubber

RECURSIVE clear_commit_marks(_, _, _)
RECURSIVE clear_parents(_, _, _, _)

\* The while loop of clear_commit_marks over the parent cells ps[i..].
ClearNoParents(ps, i, mark, fl) == fl

clear_parents(ps, i, mark, fl) ==
    IF i > Len(ps) THEN fl
    ELSE clear_parents(ps, i + 1, mark,
                       IF mark \cap fl[ps[i]] # {}
                       THEN clear_commit_marks(ps[i], mark, fl)
                       ELSE fl)

\* clear_commit_marks(commit, mark) on the flag words fl; the flag words after.
clear_commit_marks(commit, mark, fl) ==
    clear_parents(parents[commit], 1, mark,
                  [fl EXCEPT ![commit] = @ \ mark])

\* clear_commit_marks(one, all_flags); clear_commit_marks(two, all_flags);
\* as get_merge_bases does for its arguments and for each pair it reduces.
ClearOneOnly(one, two, fl) ==
    clear_commit_marks(one, all_flags, fl)

clear_both(one, two, fl) ==
    clear_commit_marks(two, all_flags, clear_commit_marks(one, all_flags, fl))

\* ------------------------------------------------------------ merge-base engine

\* interesting: the first item of the list that is not STALE, or NULL.
InterestingHead(list, fl) ==
    IF list = <<>> \/ STALE \in fl[Head(list)] THEN NULL ELSE Head(list)

interesting(list, fl) ==
    LET live == { i \in 1..Len(list) : STALE \notin fl[list[i]] }
    IN  IF live = {} THEN NULL ELSE list[SetMin(live)]

\* The local `flags' of one round of merge_bases' loop, from the popped
\* commit's flag word: a commit with both parent bits and not STALE is a
\* found merge, and its parents are to be marked STALE.
round_flags(cf) ==
    LET f == cf \cap {PARENT1, PARENT2, STALE}
    IN  IF f = {PARENT1, PARENT2} THEN f \cup {STALE} ELSE f

RECURSIVE MarkEveryParent(_, _, _, _)
\* A loop that marks and inserts every parent, marked before or not.
MarkEveryParent(ps, i, f, st) ==
    IF i > Len(ps) THEN st
    ELSE MarkEveryParent(ps, i + 1, f,
             [st EXCEPT !.flags[ps[i]] = @ \cup f,
                        !.list = insert_by_date(ps[i], @)])

RECURSIVE mark_parents(_, _, _, _)
\* The inner loop of merge_bases over the popped commit's parents ps[i..]:
\* a parent that lacks one of the bits f gets them and is inserted by date.
mark_parents(ps, i, f, st) ==
    IF i > Len(ps) THEN st
    ELSE LET p == ps[i]
         IN  IF f \subseteq st.flags[p]
             THEN mark_parents(ps, i + 1, f, st)
             ELSE mark_parents(ps, i + 1, f,
                      [st EXCEPT !.flags[p] = @ \cup f,
                                 !.list = insert_by_date(p, @)])

\* One round of merge_bases' main loop: pop the head, record it as a result
\* if it is a found merge not yet recorded, mark its parents.
merge_round(st) ==
    LET commit == Head(st.list)
        cf     == st.flags[commit]
        found  == (cf \cap {PARENT1, PARENT2, STALE}) = {PARENT1, PARENT2}
        popped == [st EXCEPT !.list = Tail(@)]
        marked == IF found /\ RESULT \notin cf
                  THEN [popped EXCEPT !.flags[commit] = @ \cup {RESULT},
                                      !.result = insert_by_date(commit, @)]
                  ELSE popped
    IN  mark_parents(parents[commit], 1, round_flags(cf), marked)

RECURSIVE merge_loop(_)
\* while (interesting(list)) ...
merge_loop(st) ==
    IF interesting(st.list, st.flags) = NULL THEN st
    ELSE merge_loop(merge_round(st))

RECURSIVE remove_stale(_, _, _)
\* The clean-up loop of merge_bases: the items of list that are not STALE,
\* inserted by date into acc.
remove_stale(list, fl, acc) ==
    IF list = <<>> THEN acc
    ELSE remove_stale(Tail(list), fl,
                      IF STALE \notin fl[Head(list)]
                      THEN insert_by_date(Head(list), acc)
                      ELSE acc)

\* merge_bases(one, two) on the flag words fl: the list returned and the
\* flag words it leaves.
merge_bases(one, two, fl) ==
    IF one = two THEN [result |-> <<one>>, flags |-> fl]
    ELSE LET fl1 == [fl EXCEPT ![one] = @ \cup {PARENT1}]
             fl2 == [fl1 EXCEPT ![two] = @ \cup {PARENT2}]
             st  == merge_loop([flags  |-> fl2,
                                list   |-> insert_by_date(two,
                                               insert_by_date(one, <<>>)),
                                result |-> <<>>])
         IN  [result |-> remove_stale(st.result, st.flags, <<>>),
              flags  |-> st.flags]

\* The body of get_merge_bases' pairwise loop for the slots i < j of rslt.
NoNullOut(i, j, st) ==
    IF st.rslt[i] = NULL \/ st.rslt[j] = NULL THEN st
    ELSE LET r == merge_bases(st.rslt[i], st.rslt[j], st.flags)
         IN  [st EXCEPT !.flags = clear_both(st.rslt[i], st.rslt[j], r.flags)]

reduce_pair(i, j, st) ==
    IF st.rslt[i] = NULL \/ st.rslt[j] = NULL THEN st
    ELSE LET r  == merge_bases(st.rslt[i], st.rslt[j], st.flags)
         IN  [rslt  |-> [st.rslt EXCEPT
                           ![i] = IF @ \in Range(r.result) THEN NULL ELSE @,
                           ![j] = IF @ \in Range(r.result) THEN NULL ELSE @],
              flags |-> clear_both(st.rslt[i], st.rslt[j], r.flags)]

RECURSIVE reduce_loop(_, _, _)
\* for (i = 0; i < cnt - 1; i++) for (j = i+1; j < cnt; j++), slots from 1.
reduce_loop(i, j, st) ==
    LET cnt == Len(st.rslt)
    IN  IF i > cnt - 1 THEN st
        ELSE IF j > cnt THEN reduce_loop(i + 1, i + 2, st)
        ELSE reduce_loop(i, j + 1, reduce_pair(i, j, st))

RECURSIVE surviving(_, _, _)
\* The last loop of get_merge_bases: the slots of rslt[i..] that are not
\* NULL, inserted by date into acc.
surviving(rslt, i, acc) ==
    IF i > Len(rslt) THEN acc
    ELSE surviving(rslt, i + 1,
                   IF rslt[i] # NULL THEN insert_by_date(rslt[i], acc) ELSE acc)

\* get_merge_bases(one, two, cleanup) on the flag words fl: the list
\* returned, the flag words left, and how many merge_bases found at first.
get_merge_bases(one, two, cleanup, fl) ==
    LET r == merge_bases(one, two, fl)
    IN  IF one = two
        THEN [result |-> r.result, flags |-> r.flags, cnt |-> 1]
        ELSE IF Len(r.result) <= 1
        THEN [result |-> r.result,
              flags  |-> IF cleanup THEN clear_both(one, two, r.flags)
                         ELSE r.flags,
              cnt    |-> Len(r.result)]
        ELSE LET cleared == clear_both(one, two, r.flags)
                 st == reduce_loop(1, 2, [rslt |-> r.result, flags |-> cleared])
             IN  [result |-> surviving(st.rslt, 1, <<>>),
                  flags  |-> st.flags,
                  cnt    |-> Len(r.result)]

\* in_merge_bases(commit, &reference, 1): the value returned (1 or 0) and
\* the flag words left.  A handle stands for its sha1, so hashcmp is equality.
InAnyMergeBase(commit, reference, fl) ==
    LET g == get_merge_bases(commit, reference, TRUE, fl)
    IN  [ret    |-> IF g.result # <<>> THEN 1 ELSE 0,
         result |-> g.result,
         flags  |-> g.flags,
         cnt    |-> g.cnt]

in_merge_bases(commit, reference, fl) ==
    LET g == get_merge_bases(commit, reference, TRUE, fl)
    IN  [ret    |-> IF commit \in Range(g.result) THEN 1 ELSE 0,
         result |-> g.result,
         flags  |-> g.flags,
         cnt    |-> g.cnt]

\* ------------------------------------------------- merge-base queries on a history

Commits == 1..NumCommits

NoSort == [fn |-> "none", lifo |-> FALSE, input |-> <<>>]

NoGraft == [sha1 |-> NULL, nr_parent |-> 0, parent |-> <<>>, line |-> FALSE]

NoGraftCall == [fn |-> "none", ret |-> 0, graft |-> NoGraft, file |-> <<>>,
                sha1 |-> NULL, out |-> <<>>, before |-> <<>>,
                pack |-> FALSE, room |-> 0]

\* What follows the parent headers of a commit buffer: len bytes, that begin
\* with an author line or not, followed by a committer line or not, whose
\* digits after '>' strtoul reads as date (-1 stands for ULONG_MAX).
NoRest == [len |-> 0, author |-> FALSE, committer |-> FALSE, date |-> 0]

NoBuffer == [tree_line |-> [prefix |-> FALSE, hex |-> [ok |-> FALSE, id |-> NULL]],
             plines |-> <<>>, rest |-> NoRest]

NoParseCall == [fn |-> "none", item |-> NULL, sha1 |-> NULL, ret |-> 0,
                was_parsed |-> FALSE, had_failed |-> FALSE,
                buffer |-> NoBuffer, graft |-> NoGraft]

NoPrint == [fn |-> "none", line |-> <<>>, encoding |-> <<>>, sb |-> <<>>]

NoWalk == [fn |-> "none", stack |-> <<>>]

\* The parts of the state a specification leaves out.
NoSteps == pp = NoPrint /\ cm = NoWalk

NoTopo == util = <<>> /\ tlist = <<>> /\ ts = NoSort

NoGrafts ==
    /\ commit_graft = <<>>
    /\ commit_graft_prepared = FALSE
    /\ graft_file = <<>>
    /\ gr = NoGraftCall

NoObjects ==
    /\ obj_hash = <<>>
    /\ parsed = <<>>
    /\ tree = <<>>
    /\ pr = NoParseCall
    /\ looked_up = {}
    /\ failed = {}
    /\ ops = 0

\* The parent lists commit c may have: distinct commits, each older in the
\* numbering, so that every history is acyclic.
ParentLists(c) ==
    { s \in UNION { [1..n -> 1..(c - 1)] : n \in 0..(c - 1) } :
        \A i, j \in DOMAIN s : i # j => s[i] # s[j] }

Clean(fl) == \A c \in DOMAIN fl : fl[c] \cap all_flags = {}

NoCall == [fn |-> "none", one |-> NULL, two |-> NULL, cleanup |-> FALSE,
           clean |-> TRUE, cnt |-> 0, result |-> <<>>, ret |-> 0]

RECURSIVE Histories(_)
\* The parent maps of the acyclic histories of the commits 1..n.
Histories(n) ==
    IF n = 0 THEN { <<>> }
    ELSE { Append(h, s) : h \in Histories(n - 1), s \in ParentLists(n) }

InitMB ==
    /\ parents \in Histories(NumCommits)
    /\ date \in [Commits -> 1..MaxDate]
    /\ flags = [c \in Commits |-> {}]
    /\ mb = NoCall
    /\ queries = 0
    /\ NoTopo
    /\ NoGrafts
    /\ NoObjects
    /\ NoSteps

CallGetMergeBases(one, two, cleanup) ==
    /\ mb.fn = "none"
    /\ queries < MaxQueries
    /\ queries' = queries + 1
    /\ LET g == get_merge_bases(one, two, cleanup, flags)
       IN  /\ flags' = g.flags
           /\ mb' = [fn |-> "get_merge_bases", one |-> one, two |-> two,
                     cleanup |-> cleanup, clean |-> Clean(flags),
                     cnt |-> g.cnt, result |-> g.result, ret |-> 0]
    /\ UNCHANGED <<graphVars, topoVars, graftVars, objVars>>
    /\ UNCHANGED stepVars

CallInMergeBases(commit, reference) ==
    /\ mb.fn = "none"
    /\ queries < MaxQueries
    /\ queries' = queries + 1
    /\ LET g == in_merge_bases(commit, reference, flags)
       IN  /\ flags' = g.flags
           /\ mb' = [fn |-> "in_merge_bases", one |-> commit, two |-> reference,
                     cleanup |-> TRUE, clean |-> Clean(flags),
                     cnt |-> g.cnt, result |-> g.result, ret |-> g.ret]
    /\ UNCHANGED <<graphVars, topoVars, graftVars, objVars>>
    /\ UNCHANGED stepVars

\* The caller takes the result; the flag words stay as the call left them.
ReturnMB ==
    /\ mb.fn # "none"
    /\ mb' = NoCall
    /\ UNCHANGED <<graphVars, flags, queries, topoVars, graftVars, objVars>>
    /\ UNCHANGED stepVars

NextMB ==
    \/ \E one, two \in Commits, cleanup \in BOOLEAN :
           CallGetMergeBases(one, two, cleanup)
    \/ \E commit, reference \in Commits : CallInMergeBases(commit, reference)
    \/ ReturnMB

SpecMB == InitMB /\ [][NextMB]_vars

\* ------------------------------------------- ancestry, stated on the parent edges

RECURSIVE Closure(_)
\* The commits reachable from the set S over parent edges, S included.
Closure(S) ==
    LET T == S \cup UNION { Range(parents[c]) : c \in S }
    IN  IF T = S THEN S ELSE Closure(T)

\* a is an ancestor of c, or c itself.
AncestorOrEqual(a, c) == a \in Closure({c})

CommonAncestors(a, b) == Closure({a}) \cap Closure({b})

\* The common ancestors of a and b with no proper descendant that is one too.
LowestCommonAncestors(a, b) ==
    { m \in CommonAncestors(a, b) :
        \A d \in CommonAncestors(a, b) : AncestorOrEqual(m, d) => d = m }

\* A get_merge_bases call that started on clean flag words has returned.
ReturnedGMB == mb.fn = "get_merge_bases" /\ mb.clean

\* Some commit is dated later than one of its descendants.
DateSkew ==
    \E c \in Commits, p \in Commits :
        p # c /\ AncestorOrEqual(p, c) /\ date[p] > date[c]

\* C1: every commit get_merge_bases(A, B, cleanup) returns, called with the
\* reserved bits clear everywhere, is an ancestor of (or equal to) both A and
\* B, and no proper descendant of it is an ancestor-or-equal of both; for
\* every acyclic history and every assignment of dates.
C1_MergeBasesAreLowest ==
    ReturnedGMB =>
        \A i \in 1..Len(mb.result) :
            LET m == mb.result[i]
            IN  /\ AncestorOrEqual(m, mb.one)
                /\ AncestorOrEqual(m, mb.two)
                /\ \A d \in Commits :
                       (d # m /\ AncestorOrEqual(m, d))
                           => ~(AncestorOrEqual(d, mb.one) /\ AncestorOrEqual(d, mb.two))

\* C1 witness: a base is returned for two different commits although the
\* first pass found a second candidate and a commit is dated after one of
\* its descendants.
C1_Witness ==
    /\ ReturnedGMB
    /\ mb.one # mb.two
    /\ DateSkew
    /\ mb.cnt >= 2
    /\ Len(mb.result) = 1

\* C2: get_merge_bases(A, B, cleanup), called with the reserved bits clear
\* everywhere, returns every lowest common ancestor of A and B, each exactly
\* once, and nothing else; when A = B it returns [A].
C2_AllLowestOnce ==
    ReturnedGMB =>
        /\ Range(mb.result) = LowestCommonAncestors(mb.one, mb.two)
        /\ Len(mb.result) = Cardinality(LowestCommonAncestors(mb.one, mb.two))
        /\ (mb.one = mb.two => mb.result = <<mb.one>>)

\* C2 witness: a criss-cross, two merges of the same two independent bases,
\* for which both bases are returned.
C2_Witness ==
    /\ ReturnedGMB
    /\ mb.one # mb.two
    /\ Len(mb.result) = 2
    /\ Range(parents[mb.one]) = Range(mb.result)
    /\ Range(parents[mb.two]) = Range(mb.result)

\* C3: in_merge_bases(c, [r], 1), called with the reserved bits clear
\* everywhere, returns true exactly when c is an ancestor of r or r itself.
C3_InMergeBasesIsAncestry ==
    (mb.fn = "in_merge_bases" /\ mb.clean) =>
        (mb.ret = 1 <=> AncestorOrEqual(mb.one, mb.two))

\* C3 witness: true is returned for a proper ancestor that is dated after
\* its descendant.
C3_Witness ==
    /\ mb.fn = "in_merge_bases"
    /\ mb.clean
    /\ mb.one # mb.two
    /\ mb.ret = 1
    /\ date[mb.one] > date[mb.two]

\* C4: after get_merge_bases(A, B, cleanup = true), called with the reserved
\* bits clear on every commit, they are clear again on every commit, however
\* many candidates the first pass found.
C4_CleanAfterCleanup ==
    (ReturnedGMB /\ mb.cleanup) => Clean(flags)

\* C4 witness: such a call whose first pass found several candidates, so
\* that the pairwise reduction ran.
C4_Witness ==
    /\ ReturnedGMB
    /\ mb.cleanup
    /\ mb.cnt >= 2
    /\ Clean(flags)

\* C5 as stated: on return from get_merge_bases with any value of cleanup,
\* and from in_merge_bases, the reserved bits are clear on every commit.
C5_CleanAfterEveryCall ==
    (mb.fn # "none" /\ mb.clean) => Clean(flags)

\* C5 amended: on return from in_merge_bases and from get_merge_bases the
\* reserved bits are clear on every commit exactly when cleanup was asked
\* for, or the first pass found more than one candidate, or A = B; after
\* get_merge_bases(A, B, cleanup = 0) with A # B and at most one candidate
\* they are left set.
C5_CleanIffCleanupOrReduced ==
    (mb.fn # "none" /\ mb.clean) =>
        (Clean(flags) <=> (mb.cleanup \/ mb.cnt >= 2 \/ mb.one = mb.two))

\* C5 witness: get_merge_bases without cleanup reduced several candidates
\* and left the flag words clean.
C5_Witness ==
    /\ ReturnedGMB
    /\ ~mb.cleanup
    /\ mb.cnt >= 2
    /\ Clean(flags)

\* ---------------------------------------------------------- topological sorter

\* sort_by_date: the items, in list order, inserted by date into a new list.
RECURSIVE sort_by_date_loop(_, _)
sort_by_date_loop(list_, ret) ==
    IF list_ = <<>> THEN ret
    ELSE sort_by_date_loop(Tail(list_), insert_by_date(Head(list_), ret))

sort_by_date(list_) == sort_by_date_loop(list_, <<>>)

\* commit_list_insert(item, &list): a new cell at the head.
commit_list_insert(item, list_) == <<item>> \o list_

\* The state of one sort_in_topological_order call:
\*   nodes  the sort_node array, nodes[k] for the k-th cell of the input;
\*          list_item is the number of that cell,
\*   aux    commit->util of every commit (the default setter and getter),
\*   work   the work queue,
\*   out    the cells emitted so far, in order.
\* indegree is an unsigned int; every decrement answers an earlier increment
\* for the same parent edge, so it never wraps.

RECURSIVE link_nodes(_, _, _)
\* "link the list to the array": setter(next->item, next_nodes) for the
\* cells k.. of the input.
link_nodes(input, k, aux) ==
    IF k > Len(input) THEN aux
    ELSE link_nodes(input, k + 1, [aux EXCEPT ![input[k]] = k])

RECURSIVE count_parents(_, _, _)
\* The inner loop of "update the indegree" over one commit's parents ps[i..].
CountFirstParentOnly(ps, i, st) ==
    IF i > Len(ps) \/ st.aux[ps[i]] = NULL THEN st
    ELSE [st EXCEPT !.nodes[st.aux[ps[i]]].indegree = @ + 1]

count_parents(ps, i, st) ==
    IF i > Len(ps) THEN st
    ELSE LET pn == st.aux[ps[i]]
         IN  count_parents(ps, i + 1,
                 IF pn # NULL
                 THEN [st EXCEPT !.nodes[pn].indegree = @ + 1]
                 ELSE st)

RECURSIVE count_indegree(_, _, _)
\* "update the indegree" for the cells k.. of the input.
count_indegree(input, k, st) ==
    IF k > Len(input) THEN st
    ELSE count_indegree(input, k + 1, count_parents(parents[input[k]], 1, st))

RECURSIVE find_tips(_, _, _)
\* "find the tips": the items of the cells k.. whose node has indegree 0,
\* appended to the work queue in list order.
find_tips(input, k, st) ==
    IF k > Len(input) THEN st
    ELSE find_tips(input, k + 1,
             IF st.nodes[st.aux[input[k]]].indegree = 0
             THEN [st EXCEPT !.work = @ \o <<input[k]>>]
             ELSE st)

\* A release that takes one indegree off and never enqueues the parent.
DecrementOnly(parent, lifo, st) ==
    LET pn == st.aux[parent]
    IN  IF pn = NULL THEN st
        ELSE [st EXCEPT !.nodes[pn].indegree = @ - 1]

\* A parent whose node is still linked loses one indegree and is enqueued
\* when that reaches zero: at the head when lifo, by date otherwise.
release_parent(parent, lifo, st) ==
    LET pn == st.aux[parent]
    IN  IF pn = NULL THEN st
        ELSE LET left == st.nodes[pn].indegree - 1
             IN  [st EXCEPT !.nodes[pn].indegree = left,
                            !.work = IF left # 0 THEN @
                                     ELSE IF lifo THEN commit_list_insert(parent, @)
                                     ELSE insert_by_date(parent, @)]

RECURSIVE release_parents(_, _, _, _)
\* The inner loop of the emission loop over the work item's parents ps[i..].
release_parents(ps, i, lifo, st) ==
    IF i > Len(ps) THEN st
    ELSE release_parents(ps, i + 1, lifo, release_parent(ps[i], lifo, st))

\* One round of the emission loop: pop the work item, release its parents,
\* emit its cell and unlink its node.
emit_round(lifo, st) ==
    LET work_item == Head(st.work)
        work_node == st.aux[work_item]
        popped    == [st EXCEPT !.work = Tail(@)]
        released  == release_parents(parents[work_item], 1, lifo, popped)
    IN  [released EXCEPT !.out = Append(@, released.nodes[work_node].list_item),
                         !.aux[work_item] = NULL]

RECURSIVE emit_loop(_, _)
\* while (work) ...
emit_loop(lifo, st) ==
    IF st.work = <<>> THEN st ELSE emit_loop(lifo, emit_round(lifo, st))

\* sort_in_topological_order(&list, lifo) with the default setter and getter:
\* the list and the util slots it leaves, and for each cell of the list the
\* place it had in the input.  The emitted cells are relinked from the head
\* pointer on, each emission ending the list after its cell; with no
\* emission the head pointer and the cells stay as they were.
sort_in_topological_order(input, lifo, aux) ==
    IF Len(input) = 0 THEN [list |-> input, util |-> aux, cells |-> <<>>]
    ELSE LET linked == [nodes |-> [k \in 1..Len(input) |->
                                      [indegree |-> 0, list_item |-> k]],
                        aux   |-> link_nodes(input, 1, aux),
                        work  |-> <<>>,
                        out   |-> <<>>]
             tips   == find_tips(input, 1, count_indegree(input, 1, linked))
             queued == IF lifo THEN tips
                       ELSE [tips EXCEPT !.work = sort_by_date(@)]
             done   == emit_loop(lifo, queued)
         IN  [list  |-> IF done.out = <<>> THEN input
                        ELSE [k \in 1..Len(done.out) |-> input[done.out[k]]],
              util  |-> done.aux,
              cells |-> IF done.out = <<>> THEN [k \in 1..Len(input) |-> k]
                        ELSE done.out]

\* ---------------------------------------------------- sorting a list of a history

TCommits == 1..TopoCommits

\* The parent lists commit c of the sorter's history may have: commits older
\* in the numbering, so that the history is acyclic; a parent may repeat.
TopoParentLists(c) ==
    UNION { [1..n -> 1..(c - 1)] : n \in 0..TopoParents }

RECURSIVE TopoHistories(_)
TopoHistories(n) ==
    IF n = 0 THEN { <<>> }
    ELSE { Append(h, s) : h \in TopoHistories(n - 1), s \in TopoParentLists(n) }

\* The lists of distinct commits of the history, in any order.
DistinctLists ==
    { s \in UNION { [1..n -> TCommits] : n \in 0..TopoCommits } :
        \A i, j \in DOMAIN s : i # j => s[i] # s[j] }

InitTopo ==
    /\ parents \in TopoHistories(TopoCommits)
    /\ date \in [TCommits -> 1..MaxDate]
    /\ flags = [c \in TCommits |-> {}]
    /\ mb = NoCall
    /\ queries = 0
    /\ util = [c \in TCommits |-> NULL]
    /\ tlist \in DistinctLists
    /\ ts = NoSort
    /\ NoGrafts
    /\ NoObjects
    /\ NoSteps

CallSortInTopologicalOrder(lifo) ==
    /\ \E r \in { sort_in_topological_order(tlist, lifo, util) } :
           /\ tlist' = r.list
           /\ util' = r.util
           /\ ts' = [fn |-> "sort_in_topological_order", lifo |-> lifo,
                     input |-> tlist, cells |-> r.cells]
    /\ UNCHANGED <<graphVars, mbVars, graftVars, objVars>>
    /\ UNCHANGED stepVars

NextTopo == \E lifo \in BOOLEAN : CallSortInTopologicalOrder(lifo)

SpecTopo == InitTopo /\ [][NextTopo]_vars

\* C6: after sort_in_topological_order(L, lifo), for lifo true and false,
\* on a list L of distinct commits with acyclic parent edges and no aux slot
\* set outside L, every commit of L is in the list and comes before each of
\* its parents that is in L too.
C6_ChildrenBeforeParents ==
    ts.fn = "sort_in_topological_order" =>
        \A c \in Range(ts.input) :
            \E i \in 1..Len(tlist) :
                /\ tlist[i] = c
                /\ \A p \in Range(parents[c]) \cap Range(ts.input) :
                       \E j \in (i + 1)..Len(tlist) : tlist[j] = p

\* C6 witness: a list of three commits that named a parent before its child
\* and a commit with two parents in the list has been sorted by date order.
C6_Witness ==
    /\ ts.fn = "sort_in_topological_order"
    /\ ~ts.lifo
    /\ Len(ts.input) = 3
    /\ \E c \in Range(ts.input) :
           Cardinality(Range(parents[c]) \cap Range(ts.input)) = 2
    /\ \E i, j \in 1..Len(ts.input) :
           i < j /\ ts.input[i] \in Range(parents[ts.input[j]])
    /\ tlist # ts.input

\* C17: on a list of distinct commits with acyclic parent edges, repeated
\* parents included, and no aux slot set outside the list, the list left by
\* sort_in_topological_order is made of the cells of the input, each of them
\* once: every commit of the input is in it exactly once.
C17_EmitsEveryCommitOnce ==
    ts.fn = "sort_in_topological_order" =>
        /\ Len(tlist) = Len(ts.input)
        /\ Len(ts.cells) = Len(ts.input)
        /\ \A k \in 1..Len(ts.input) :
               Cardinality({ i \in 1..Len(ts.cells) : ts.cells[i] = k }) = 1
        /\ \A i \in 1..Len(tlist) : tlist[i] = ts.input[ts.cells[i]]
        /\ \A c \in Range(ts.input) :
               Cardinality({ i \in 1..Len(tlist) : tlist[i] = c }) = 1

\* C17 witness: a commit that names the same parent twice, both in a list of
\* three commits, has been sorted and the cells changed places.
C17_Witness ==
    /\ ts.fn = "sort_in_topological_order"
    /\ Len(ts.input) = 3
    /\ \E c \in Range(ts.input) :
           /\ Len(parents[c]) = 2
           /\ parents[c][1] = parents[c][2]
           /\ parents[c][1] \in Range(ts.input)
    /\ ts.cells # <<1, 2, 3>>

\* ------------------------------------------------------------------ graft overlay

\* A 40-character hex field of a line or a buffer: the hex of an identifier
\* (get_sha1_hex yields id) or not hex at all (get_sha1_hex fails).
Hex(id) == [ok |-> TRUE, id |-> id]
BadHex == [ok |-> FALSE, id |-> NULL]

\* sha1_to_hex
sha1_to_hex(sha1) == Hex(sha1)

hashcmp(a, b) == IF a < b THEN -1 ELSE IF a > b THEN 1 ELSE 0

RECURSIVE graft_search(_, _, _, _)
\* The loop of commit_graft_pos, positions counted from 0 as in the array.
graft_search(sha1, cg, lo, hi) ==
    IF lo < hi
    THEN LET mi  == (lo + hi) \div 2
             cmp == hashcmp(sha1, cg[mi + 1].sha1)
         IN  IF cmp = 0 THEN mi
             ELSE IF cmp < 0 THEN graft_search(sha1, cg, lo, mi)
             ELSE graft_search(sha1, cg, mi + 1, hi)
    ELSE -lo - 1

commit_graft_pos(sha1, cg) == graft_search(sha1, cg, 0, Len(cg))

\* register_commit_graft(graft, ignore_dups) on the array cg: the value
\* returned and the array after.
register_commit_graft(graft, ignore_dups, cg) ==
    LET pos == commit_graft_pos(graft.sha1, cg)
    IN  IF 0 <= pos
        THEN [ret |-> 1,
              commit_graft |-> IF ignore_dups THEN cg
                               ELSE [cg EXCEPT ![pos + 1] = graft]]
        ELSE LET at == -pos - 1
             IN  [ret |-> 0,
                  commit_graft |-> SubSeq(cg, 1, at) \o <<graft>>
                                       \o SubSeq(cg, at + 1, Len(cg))]

\* A line of a graft file as fgets hands it over:
\*   comment  it begins with '#',
\*   toks     its 40-character fields, each followed by one more character,
\*   sep      every character between two fields is a space,
\*   extra    characters after the last field, before the newline.
\* The length of the line once its newline is cut:
LineLen(line) ==
    IF line.comment THEN 1 + line.extra
    ELSE IF line.toks = <<>> THEN line.extra
    ELSE 41 * Len(line.toks) - 1 + line.extra

\* read_graft_line: the graft allocated, or NoGraft for NULL.  The graft
\* carries `line' to tell where it came from; the program keeps no such mark.
ShallowForNoParents(line) ==
    LET len == LineLen(line)
        i   == (len + 1) \div 41 - 1
    IN  IF line.comment \/ len = 0 THEN NoGraft
        ELSE IF (len + 1) % 41 # 0 THEN NoGraft
        ELSE IF ~line.toks[1].ok THEN NoGraft
        ELSE IF \E k \in 2..Len(line.toks) : ~line.sep \/ ~line.toks[k].ok
        THEN NoGraft
        ELSE [sha1      |-> line.toks[1].id,
              nr_parent |-> IF i = 0 THEN -1 ELSE i,
              parent    |-> [k \in 1..i |-> line.toks[k + 1].id],
              line      |-> TRUE]

read_graft_line(line) ==
    LET len == LineLen(line)
        i   == (len + 1) \div 41 - 1
    IN  IF line.comment \/ len = 0 THEN NoGraft
        ELSE IF (len + 1) % 41 # 0 THEN NoGraft
        ELSE IF ~line.toks[1].ok THEN NoGraft
        ELSE IF \E k \in 2..Len(line.toks) : ~line.sep \/ ~line.toks[k].ok
        THEN NoGraft
        ELSE [sha1      |-> line.toks[1].id,
              nr_parent |-> i,
              parent    |-> [k \in 1..i |-> line.toks[k + 1].id],
              line      |-> TRUE]

RECURSIVE read_graft_lines(_, _, _)
\* The fgets loop of read_graft_file over the lines k.. of the file.
read_graft_lines(lines, k, cg) ==
    IF k > Len(lines) THEN cg
    ELSE LET graft == read_graft_line(lines[k])
         IN  read_graft_lines(lines, k + 1,
                 IF graft = NoGraft THEN cg
                 ELSE register_commit_graft(graft, TRUE, cg).commit_graft)

\* read_graft_file on a file that exists or not.
read_graft_file(file, cg) ==
    IF ~file.exists THEN [ret |-> -1, commit_graft |-> cg]
    ELSE [ret |-> 0, commit_graft |-> read_graft_lines(file.lines, 1, cg)]

\* prepare_commit_graft: the graft file is read on the first call.  The
\* repository is not shallow: is_repository_shallow() registers nothing.
prepare_commit_graft(g) ==
    IF g.prepared THEN g
    ELSE [prepared |-> TRUE,
          commit_graft |-> read_graft_file(graft_file, g.commit_graft).commit_graft]

\* lookup_commit_graft: the graft found (NoGraft for NULL) and the graft
\* state after.
lookup_commit_graft(sha1, g) ==
    LET ready == prepare_commit_graft(g)
        pos   == commit_graft_pos(sha1, ready.commit_graft)
    IN  [graft |-> IF pos < 0 THEN NoGraft ELSE ready.commit_graft[pos + 1],
         g     |-> ready]

RECURSIVE write_shallow_loop(_, _, _, _)
\* The loop of write_shallow_commits from entry i on; st.room is the number
\* of write_in_full calls that still succeed.
write_shallow_loop(cg, i, use_pack_protocol, st) ==
    IF i > Len(cg) THEN st
    ELSE IF cg[i].nr_parent >= 0
    THEN write_shallow_loop(cg, i + 1, use_pack_protocol, st)
    ELSE LET hex     == sha1_to_hex(cg[i].sha1)
             counted == [st EXCEPT !.count = @ + 1]
         IN  IF use_pack_protocol
             THEN write_shallow_loop(cg, i + 1, use_pack_protocol,
                      [counted EXCEPT !.out = Append(@,
                          [pre |-> "shallow ", hex |-> hex, nl |-> FALSE])])
             ELSE IF counted.room = 0 THEN counted
             ELSE IF counted.room = 1
             THEN [counted EXCEPT !.room = 0, !.out = Append(@,
                      [pre |-> "", hex |-> hex, nl |-> FALSE])]
             ELSE write_shallow_loop(cg, i + 1, use_pack_protocol,
                      [counted EXCEPT !.room = @ - 2, !.out = Append(@,
                          [pre |-> "", hex |-> hex, nl |-> TRUE])])

\* write_shallow_commits(fd, use_pack_protocol): the count returned and what
\* reached fd, when the first `room' calls of write_in_full succeed.
write_shallow_commits(use_pack_protocol, room, cg) ==
    write_shallow_loop(cg, 1, use_pack_protocol,
                       [count |-> 0, out |-> <<>>, room |-> room])

\* The memcpy of unregister_shallow moves the entries after pos one slot
\* down.  Source and destination overlap as soon as more than one entry
\* moves, which memcpy leaves undefined: a copy by ascending addresses moves
\* every entry, a copy by descending addresses spreads the last entry over
\* the slots.
memcpy_down(cg, pos, order) ==
    IF order = "ascending"
    THEN SubSeq(cg, 1, pos) \o SubSeq(cg, pos + 2, Len(cg))
    ELSE SubSeq(cg, 1, pos) \o [k \in 1..(Len(cg) - pos - 1) |-> cg[Len(cg)]]

CopyOrders == {"ascending", "descending"}

\* unregister_shallow(sha1) on the array cg, with the order the build's
\* memcpy copies in.
unregister_shallow(sha1, cg, order) ==
    LET pos == commit_graft_pos(sha1, cg)
    IN  IF pos < 0 THEN [ret |-> -1, commit_graft |-> cg]
        ELSE [ret |-> 0,
              commit_graft |-> IF pos + 1 < Len(cg)
                               THEN memcpy_down(cg, pos, order)
                               ELSE SubSeq(cg, 1, Len(cg) - 1)]

\* ----------------------------------------------------- calls on the graft table

Ids == 1..MaxId

\* The grafts a caller hands to register_commit_graft: a shallow marker
\* (nr_parent = -1), no parent, or one parent.
CallerGrafts ==
    { [sha1 |-> c, nr_parent |-> -1, parent |-> <<>>, line |-> FALSE] : c \in Ids }
    \cup { [sha1 |-> 2, nr_parent |-> 0, parent |-> <<>>, line |-> FALSE],
           [sha1 |-> MaxId, nr_parent |-> 1, parent |-> <<1>>, line |-> FALSE] }

\* Lines of a graft file: a comment, an empty line, a commit alone, a commit
\* with one parent, and malformed ones (a stray character, a separator that
\* is no space, a field that is no hex).
GraftLines ==
    { [comment |-> TRUE, toks |-> <<>>, sep |-> TRUE, extra |-> 0],
      [comment |-> FALSE, toks |-> <<>>, sep |-> TRUE, extra |-> 0],
      [comment |-> FALSE, toks |-> <<Hex(1)>>, sep |-> TRUE, extra |-> 1],
      [comment |-> FALSE, toks |-> <<Hex(1), Hex(2)>>, sep |-> FALSE, extra |-> 0],
      [comment |-> FALSE, toks |-> <<BadHex>>, sep |-> TRUE, extra |-> 0],
      [comment |-> FALSE, toks |-> <<Hex(1), BadHex>>, sep |-> TRUE, extra |-> 0],
      [comment |-> FALSE, toks |-> <<Hex(1), Hex(2)>>, sep |-> TRUE, extra |-> 0] }
    \cup { [comment |-> FALSE, toks |-> <<Hex(c)>>, sep |-> TRUE, extra |-> 0] :
             c \in Ids }

\* A line that holds one well-formed identifier and nothing else.
IsCommitAlone(line) ==
    /\ ~line.comment
    /\ Len(line.toks) = 1
    /\ line.toks[1].ok
    /\ line.extra = 0

GraftFiles ==
    { [exists |-> FALSE, lines |-> <<>>] }
    \cup { [exists |-> TRUE, lines |-> l] :
             l \in UNION { [1..n -> GraftLines] : n \in 0..MaxFileLines } }

\* The graft file of the repository: none, or one of a few.
RepositoryGraftFiles ==
    { [exists |-> FALSE, lines |-> <<>>],
      [exists |-> TRUE,
       lines |-> << [comment |-> FALSE, toks |-> <<Hex(MaxId)>>,
                     sep |-> TRUE, extra |-> 0] >>] }

GraftState == [commit_graft |-> commit_graft, prepared |-> commit_graft_prepared]

InitGraft ==
    /\ parents = <<>>
    /\ date = <<>>
    /\ flags = <<>>
    /\ mb = NoCall
    /\ queries = 0
    /\ NoTopo
    /\ NoObjects
    /\ commit_graft = <<>>
    /\ commit_graft_prepared = FALSE
    /\ graft_file \in RepositoryGraftFiles
    /\ gr = NoGraftCall
    /\ NoSteps

CallReadGraftLine(line) ==
    /\ gr.fn = "none"
    /\ gr' = [NoGraftCall EXCEPT !.fn = "read_graft_line",
                                 !.file = <<line>>,
                                 !.graft = read_graft_line(line),
                                 !.before = commit_graft]
    /\ UNCHANGED <<commit_graft, commit_graft_prepared, graft_file>>
    /\ UNCHANGED <<graphVars, mbVars, topoVars, objVars>>
    /\ UNCHANGED stepVars

CallReadGraftFile(file) ==
    /\ gr.fn = "none"
    /\ LET r == read_graft_file(file, commit_graft)
       IN  /\ Len(r.commit_graft) <= MaxGrafts
           /\ commit_graft' = r.commit_graft
           /\ gr' = [NoGraftCall EXCEPT !.fn = "read_graft_file",
                                        !.file = file.lines,
                                        !.ret = r.ret,
                                        !.before = commit_graft]
    /\ UNCHANGED <<commit_graft_prepared, graft_file>>
    /\ UNCHANGED <<graphVars, mbVars, topoVars, objVars>>
    /\ UNCHANGED stepVars

CallRegisterCommitGraft(graft, ignore_dups) ==
    /\ gr.fn = "none"
    /\ LET r == register_commit_graft(graft, ignore_dups, commit_graft)
       IN  /\ Len(r.commit_graft) <= MaxGrafts
           /\ commit_graft' = r.commit_graft
           /\ gr' = [NoGraftCall EXCEPT !.fn = "register_commit_graft",
                                        !.graft = graft,
                                        !.sha1 = graft.sha1,
                                        !.ret = r.ret,
                                        !.before = commit_graft]
    /\ UNCHANGED <<commit_graft_prepared, graft_file>>
    /\ UNCHANGED <<graphVars, mbVars, topoVars, objVars>>
    /\ UNCHANGED stepVars

CallUnregisterShallow(sha1) ==
    /\ gr.fn = "none"
    /\ \E order \in CopyOrders :
       LET r == unregister_shallow(sha1, commit_graft, order)
       IN  /\ commit_graft' = r.commit_graft
           /\ gr' = [NoGraftCall EXCEPT !.fn = "unregister_shallow",
                                        !.sha1 = sha1,
                                        !.ret = r.ret,
                                        !.before = commit_graft]
    /\ UNCHANGED <<commit_graft_prepared, graft_file>>
    /\ UNCHANGED <<graphVars, mbVars, topoVars, objVars>>
    /\ UNCHANGED stepVars

CallLookupCommitGraft(sha1) ==
    /\ gr.fn = "none"
    /\ LET r == lookup_commit_graft(sha1, GraftState)
       IN  /\ Len(r.g.commit_graft) <= MaxGrafts
           /\ commit_graft' = r.g.commit_graft
           /\ commit_graft_prepared' = r.g.prepared
           /\ gr' = [NoGraftCall EXCEPT !.fn = "lookup_commit_graft",
                                        !.sha1 = sha1,
                                        !.graft = r.graft,
                                        !.before = commit_graft]
    /\ UNCHANGED graft_file
    /\ UNCHANGED <<graphVars, mbVars, topoVars, objVars>>
    /\ UNCHANGED stepVars

CallWriteShallowCommits(use_pack_protocol, room) ==
    /\ gr.fn = "none"
    /\ LET r == write_shallow_commits(use_pack_protocol, room, commit_graft)
       IN  gr' = [NoGraftCall EXCEPT !.fn = "write_shallow_commits",
                                     !.ret = r.count,
                                     !.pack = use_pack_protocol,
                                     !.room = room,
                                     !.out = r.out,
                                     !.before = commit_graft]
    /\ UNCHANGED <<commit_graft, commit_graft_prepared, graft_file>>
    /\ UNCHANGED <<graphVars, mbVars, topoVars, objVars>>
    /\ UNCHANGED stepVars

\* The caller takes what the call returned.
ReturnGraft ==
    /\ gr.fn # "none"
    /\ gr' = NoGraftCall
    /\ UNCHANGED <<commit_graft, commit_graft_prepared, graft_file>>
    /\ UNCHANGED <<graphVars, mbVars, topoVars, objVars>>
    /\ UNCHANGED stepVars

NextGraft ==
    \/ \E line \in GraftLines : CallReadGraftLine(line)
    \/ \E file \in GraftFiles : CallReadGraftFile(file)
    \/ \E graft \in CallerGrafts, ignore_dups \in BOOLEAN :
           CallRegisterCommitGraft(graft, ignore_dups)
    \/ \E sha1 \in Ids : CallUnregisterShallow(sha1)
    \/ \E sha1 \in Ids : CallLookupCommitGraft(sha1)
    \/ \E use_pack_protocol \in BOOLEAN, room \in 0..(2 * MaxId) :
           CallWriteShallowCommits(use_pack_protocol, room)
    \/ ReturnGraft

SpecGraft == InitGraft /\ [][NextGraft]_vars

\* --------------------------------------------------- claims on the graft overlay

\* The entries of the array that write_shallow_commits takes for shallow.
ShallowEntries == SelectSeq(commit_graft, LAMBDA g : g.nr_parent < 0)

\* Every write of the call recorded in gr went through.
AllWritten == gr.pack \/ gr.room >= 2 * Len(ShallowEntries)

\* The identifiers that reached fd.
EmittedIds == { gr.out[k].hex.id : k \in 1..Len(gr.out) }

World ==
    [obj_hash |-> obj_hash, parsed |-> parsed, tree |-> tree,
     parents |-> parents, date |-> date, looked_up |-> looked_up,
     commit_graft |-> commit_graft, prepared |-> commit_graft_prepared]

\* lookup_object: the handle the table holds for sha1, or NULL.
lookup_object(sha1, w) ==
    LET found == { k \in 1..Len(w.obj_hash) : w.obj_hash[k].sha1 = sha1 }
    IN  IF found = {} THEN NULL ELSE SetMin(found)

\* create_object on a node fresh from alloc_commit_node or alloc_tree_node
\* (zeroed memory); the handle of the node is Len of the table after.
create_object(sha1, type, w) ==
    [w EXCEPT !.obj_hash = Append(@, [sha1 |-> sha1, type |-> type]),
              !.parsed   = Append(@, FALSE),
              !.tree     = Append(@, NULL),
              !.parents  = Append(@, <<>>),
              !.date     = Append(@, 0)]

check_commit(obj, w) ==
    IF w.obj_hash[obj].type # "commit" THEN NULL ELSE obj

\* What lookup_commit hands back, and the record of it in looked_up.
Looked(sha1, ret, w) ==
    [ret |-> ret,
     w   |-> IF ret = NULL THEN w
             ELSE [w EXCEPT !.looked_up = @ \cup {<<sha1, ret>>}]]

AlwaysAllocate(sha1, w) ==
    LET made == create_object(sha1, "commit", w)
    IN  Looked(sha1, Len(made.obj_hash), made)

lookup_commit(sha1, w) ==
    LET obj == lookup_object(sha1, w)
    IN  IF obj = NULL
        THEN LET made == create_object(sha1, "commit", w)
             IN  Looked(sha1, Len(made.obj_hash), made)
        ELSE LET typed == IF w.obj_hash[obj].type = "none"
                          THEN [w EXCEPT !.obj_hash[obj].type = "commit"]
                          ELSE w
             IN  Looked(sha1, check_commit(obj, typed), typed)

\* lookup_tree, the counterpart of lookup_commit for trees.
lookup_tree(sha1, w) ==
    LET obj == lookup_object(sha1, w)
    IN  IF obj = NULL
        THEN LET made == create_object(sha1, "tree", w)
             IN  [ret |-> Len(made.obj_hash), w |-> made]
        ELSE LET typed == IF w.obj_hash[obj].type = "none"
                          THEN [w EXCEPT !.obj_hash[obj].type = "tree"]
                          ELSE w
             IN  [ret |-> IF typed.obj_hash[obj].type # "tree" THEN NULL ELSE obj,
                  w   |-> typed]

\* A commit buffer: a first line of 46 bytes (that begins with "tree " or
\* not, its 40 characters hex or not), parent lines of 48 bytes each (hex or
\* not, closed by a newline or not), and the rest.
BufferSize(buffer) == 46 + 48 * Len(buffer.plines) + buffer.rest.len

\* parse_commit_date at offset bufptr of the buffer.  The byte after the
\* buffer is NUL, as read_sha1_file leaves it.
parse_commit_date(buffer, bufptr) ==
    IF bufptr # 46 + 48 * Len(buffer.plines) THEN 0
    ELSE IF ~buffer.rest.author THEN 0
    ELSE IF ~buffer.rest.committer THEN 0
    ELSE IF buffer.rest.date = -1 THEN 0
    ELSE buffer.rest.date

RECURSIVE parent_headers(_, _, _, _)
\* The while loop of parse_commit_buffer.  st.bufptr is the offset in the
\* buffer, st.new the cells linked in through pptr so far, st.bad whether
\* the loop left with "bad parents".
parent_headers(buffer, graft, tail, st) ==
    LET k == (st.bufptr - 46) \div 48 + 1
    IN  IF ~(st.bufptr + 48 < tail /\ k <= Len(buffer.plines)) THEN st
        ELSE LET line == buffer.plines[k]
             IN  IF tail <= st.bufptr + 48 \/ ~line.hex.ok \/ ~line.nl
                 THEN [st EXCEPT !.bad = TRUE]
                 ELSE LET moved == [st EXCEPT !.bufptr = @ + 48]
                          np    == lookup_commit(line.hex.id, moved.w)
                      IN  IF graft # NoGraft
                          THEN parent_headers(buffer, graft, tail, moved)
                          ELSE parent_headers(buffer, graft, tail,
                                   [moved EXCEPT
                                       !.w = np.w,
                                       !.new = IF np.ret # NULL
                                               THEN Append(@, np.ret) ELSE @])

RECURSIVE graft_parents(_, _, _)
\* The for loop over graft->parent[i], i counted from 0.
graft_parents(graft, i, st) ==
    IF ~(i < graft.nr_parent) THEN st
    ELSE LET np == lookup_commit(graft.parent[i + 1], st.w)
         IN  graft_parents(graft, i + 1,
                 [st EXCEPT !.w = np.w,
                            !.new = IF np.ret = NULL THEN @
                                    ELSE Append(@, np.ret)])

\* The cells linked in through pptr come before what item->parents held.
link_parents(item, st) == [st.w EXCEPT !.parents[item] = st.new \o @]

mark_parsed(item, w) == [w EXCEPT !.parsed[item] = TRUE]

\* parse_commit_buffer(item, buffer, size): the value returned (-1 for
\* error()) and the memory after.  item->buffer and the object refs are
\* left out: nothing here reads them.
parse_commit_buffer(item, buffer, w) ==
    LET tail == BufferSize(buffer)
    IN  IF w.parsed[item] THEN [ret |-> 0, w |-> w]
        ELSE LET w1 == mark_parsed(item, w)
             IN  IF tail <= 5 \/ ~buffer.tree_line.prefix
                 THEN [ret |-> -1, w |-> w1]
                 ELSE IF tail <= 45 \/ ~buffer.tree_line.hex.ok
                 THEN [ret |-> -1, w |-> w1]
                 ELSE
    LET lt == lookup_tree(buffer.tree_line.hex.id, w1)
        w2 == [lt.w EXCEPT !.tree[item] = lt.ret]
        lg == lookup_commit_graft(w2.obj_hash[item].sha1,
                  [commit_graft |-> w2.commit_graft, prepared |-> w2.prepared])
        w3 == [w2 EXCEPT !.commit_graft = lg.g.commit_graft,
                         !.prepared = lg.g.prepared]
        hs == parent_headers(buffer, lg.graft, tail,
                  [w |-> w3, bad |-> FALSE, bufptr |-> 46, new |-> <<>>])
        gs == IF lg.graft # NoGraft THEN graft_parents(lg.graft, 0, hs) ELSE hs
    IN  IF hs.bad THEN [ret |-> -1, w |-> link_parents(item, hs)]
        ELSE [ret |-> 0,
              w   |-> [link_parents(item, gs) EXCEPT
                          !.date[item] = parse_commit_date(buffer, gs.bufptr)]]

\* parse_commit(item), when read_sha1_file answers `answer': nothing, or an
\* object of some type with its buffer.
parse_commit(item, answer, w) ==
    IF w.parsed[item] THEN [ret |-> 0, w |-> w]
    ELSE IF ~answer.found THEN [ret |-> -1, w |-> w]
    ELSE IF answer.type # "commit" THEN [ret |-> -1, w |-> w]
    ELSE parse_commit_buffer(item, answer.buffer, w)

\* ------------------------------------------------- calls on the table and parser

TreeLines ==
    { [prefix |-> TRUE,  hex |-> Hex(MaxId)],
      [prefix |-> TRUE,  hex |-> Hex(1)],
      [prefix |-> TRUE,  hex |-> BadHex],
      [prefix |-> FALSE, hex |-> BadHex] }

ParentLine(id) == [hex |-> Hex(id), nl |-> TRUE]

ParentHeaders ==
    { <<>>,
      <<ParentLine(2)>>,
      <<ParentLine(3), ParentLine(2)>>,
      <<ParentLine(2), [hex |-> BadHex, nl |-> TRUE]>>,
      <<[hex |-> Hex(2), nl |-> FALSE]>> }

Rests ==
    { NoRest,
      [len |-> 60, author |-> TRUE, committer |-> TRUE, date |-> 1],
      [len |-> 60, author |-> TRUE, committer |-> TRUE, date |-> -1] }

CommitBuffers ==
    { [tree_line |-> t, plines |-> p, rest |-> r] :
          t \in TreeLines, p \in ParentHeaders, r \in Rests }

\* What read_sha1_file may answer.
Answers ==
    { [found |-> FALSE, type |-> "none", buffer |-> NoBuffer],
      [found |-> TRUE, type |-> "blob", buffer |-> NoBuffer] }
    \cup { [found |-> TRUE, type |-> "commit", buffer |-> b] : b \in CommitBuffers }

\* The grafts registered while parsing goes on.
ParserGrafts ==
    { [sha1 |-> 1, nr_parent |-> -1, parent |-> <<>>, line |-> FALSE],
      [sha1 |-> 1, nr_parent |-> 2, parent |-> <<3, 2>>, line |-> FALSE] }

CommitHandles == { k \in 1..Len(obj_hash) : obj_hash[k].type = "commit" }

InitParse ==
    /\ parents = <<>>
    /\ date = <<>>
    /\ flags = <<>>
    /\ mb = NoCall
    /\ queries = 0
    /\ NoTopo
    /\ commit_graft = <<>>
    /\ commit_graft_prepared = FALSE
    /\ graft_file \in RepositoryGraftFiles
    /\ gr = NoGraftCall
    /\ obj_hash = <<>>
    /\ parsed = <<>>
    /\ tree = <<>>
    /\ pr = NoParseCall
    /\ looked_up = {}
    /\ failed = {}
    /\ ops = 0
    /\ NoSteps

\* The memory after a call.
Store(w) ==
    /\ obj_hash' = w.obj_hash
    /\ parsed' = w.parsed
    /\ tree' = w.tree
    /\ parents' = w.parents
    /\ date' = w.date
    /\ looked_up' = w.looked_up
    /\ commit_graft' = w.commit_graft
    /\ commit_graft_prepared' = w.prepared

CallLookupCommit(sha1) ==
    /\ pr.fn = "none"
    /\ ops < MaxOps
    /\ ops' = ops + 1
    /\ \E r \in {lookup_commit(sha1, World)} :
           /\ Store(r.w)
           /\ pr' = [NoParseCall EXCEPT !.fn = "lookup_commit",
                                        !.sha1 = sha1,
                                        !.ret = r.ret]
    /\ UNCHANGED <<failed, graft_file, gr, mbVars, topoVars>>
    /\ UNCHANGED stepVars

CallParseCommitBuffer(item, buffer) ==
    /\ pr.fn = "none"
    /\ ops < MaxOps
    /\ ops' = ops + 1
    /\ \E r \in {parse_commit_buffer(item, buffer, World)} :
           /\ Store(r.w)
           /\ failed' = IF r.ret = 0 THEN failed ELSE failed \cup {item}
           /\ pr' = [NoParseCall EXCEPT
                        !.fn = "parse_commit_buffer",
                        !.item = item,
                        !.sha1 = obj_hash[item].sha1,
                        !.ret = r.ret,
                        !.was_parsed = parsed[item],
                        !.had_failed = item \in failed,
                        !.buffer = buffer,
                        !.graft = lookup_commit_graft(obj_hash[item].sha1,
                                                      GraftState).graft]
    /\ UNCHANGED <<graft_file, gr, mbVars, topoVars>>
    /\ UNCHANGED stepVars

CallParseCommit(item, answer) ==
    /\ pr.fn = "none"
    /\ ops < MaxOps
    /\ ops' = ops + 1
    /\ \E r \in {parse_commit(item, answer, World)} :
           /\ Store(r.w)
           /\ failed' = IF r.ret = 0 THEN failed ELSE failed \cup {item}
           /\ pr' = [NoParseCall EXCEPT
                        !.fn = "parse_commit",
                        !.item = item,
                        !.sha1 = obj_hash[item].sha1,
                        !.ret = r.ret,
                        !.was_parsed = parsed[item],
                        !.had_failed = item \in failed,
                        !.buffer = answer.buffer,
                        !.graft = lookup_commit_graft(obj_hash[item].sha1,
                                                      GraftState).graft]
    /\ UNCHANGED <<graft_file, gr, mbVars, topoVars>>
    /\ UNCHANGED stepVars

\* register_commit_graft(graft, 0) between two calls of the parser.
CallRegisterGraft(graft) ==
    /\ pr.fn = "none"
    /\ ops < MaxOps
    /\ ops' = ops + 1
    /\ LET r == register_commit_graft(graft, FALSE, commit_graft)
       IN  /\ commit_graft' = r.commit_graft
           /\ pr' = [NoParseCall EXCEPT !.fn = "register_commit_graft",
                                        !.sha1 = graft.sha1,
                                        !.ret = r.ret,
                                        !.graft = graft]
    /\ UNCHANGED <<obj_hash, parsed, tree, looked_up, failed, graphVars>>
    /\ UNCHANGED <<commit_graft_prepared, graft_file, gr, mbVars, topoVars>>
    /\ UNCHANGED stepVars

\* The caller takes what the call returned.
ReturnParse ==
    /\ pr.fn # "none"
    /\ pr' = NoParseCall
    /\ UNCHANGED <<obj_hash, parsed, tree, looked_up, failed, ops, graphVars>>
    /\ UNCHANGED <<graftVars, mbVars, topoVars>>
    /\ UNCHANGED stepVars

NextParse ==
    \/ \E sha1 \in Ids : CallLookupCommit(sha1)
    \/ \E item \in CommitHandles, buffer \in CommitBuffers :
           CallParseCommitBuffer(item, buffer)
    \/ \E item \in CommitHandles, answer \in Answers :
           CallParseCommit(item, answer)
    \/ \E graft \in ParserGrafts : CallRegisterGraft(graft)
    \/ ReturnParse

SpecParse == InitParse /\ [][NextParse]_vars

\* ---------------------------------------------- claims on the table and parser

ParseCallReturned == pr.fn \in {"parse_commit", "parse_commit_buffer"}

\* C7: whenever parse_commit or parse_commit_buffer returns 0, the commit has
\* parsed set and a tree that is not NULL, also when an earlier call on the
\* same handle had failed.
C7_SuccessMeansParsedWithTree ==
    (ParseCallReturned /\ pr.ret = 0)
        => (parsed[pr.item] /\ tree[pr.item] # NULL)

\* The identifiers of the raw parent headers of the buffer, in buffer order.
RawParentIds(buffer) == [k \in 1..Len(buffer.plines) |-> buffer.plines[k].hex.id]

\* lookup_commit hands out a commit for sha1: nothing else holds the id.
ResolvesToCommit(sha1) ==
    LET obj == lookup_object(sha1, World)
    IN  obj = NULL \/ obj_hash[obj].type \in {"commit", "none"}

\* The parents of item are the commits of the identifiers ids, in that order.
ParentsAre(item, ids) ==
    /\ Len(parents[item]) = Len(ids)
    /\ \A k \in 1..Len(ids) :
           /\ obj_hash[parents[item][k]].sha1 = ids[k]
           /\ obj_hash[parents[item][k]].type = "commit"

\* C8: when parse_commit_buffer returns 0 on a commit that was not parsed and
\* whose parent ids all resolve to commits, the parents are the graft's
\* parents in graft order if a graft was registered for the commit (none for
\* a shallow marker), and else the raw parent headers in buffer order.
C8_ParentsFromGraftOrHeaders ==
    (/\ pr.fn = "parse_commit_buffer"
     /\ pr.ret = 0
     /\ ~pr.was_parsed
     /\ \A k \in 1..Len(pr.buffer.plines) :
            /\ pr.buffer.plines[k].hex.ok
            /\ pr.buffer.plines[k].nl
            /\ ResolvesToCommit(pr.buffer.plines[k].hex.id)
     /\ \A k \in 1..Len(pr.graft.parent) : ResolvesToCommit(pr.graft.parent[k]))
        => IF pr.graft # NoGraft
           THEN ParentsAre(pr.item, pr.graft.parent)
           ELSE ParentsAre(pr.item, RawParentIds(pr.buffer))

\* C9: any two lookup_commit calls with the same identifier have returned
\* the same handle, a lookup returns the handle the table holds, and no two
\* nodes were allocated for one identifier.
C9_OneHandlePerId ==
    /\ \A p, q \in looked_up : p[1] = q[1] => p[2] = q[2]
    /\ \A i, j \in 1..Len(obj_hash) :
           obj_hash[i].sha1 = obj_hash[j].sha1 => i = j
    /\ (pr.fn = "lookup_commit" /\ pr.ret # NULL)
           => /\ pr.ret = lookup_object(pr.sha1, World)
              /\ obj_hash[pr.ret].sha1 = pr.sha1

\* lookup_commit has returned, for the second time, the handle that parsing
\* had looked up as a parent.
C9_Witness ==
    /\ pr.fn = "lookup_commit"
    /\ pr.ret # NULL
    /\ ops >= 3
    /\ \E item \in 1..Len(obj_hash) :
           /\ parsed[item]
           /\ pr.ret \in Range(parents[item])
           /\ pr.ret > item

\* ------------------------------------------- claims on unregistering and order

\* The array `before' without its entry number k.
WithoutEntry(before, k) == SubSeq(before, 1, k - 1) \o SubSeq(before, k + 1, Len(before))

\* C11: unregister_shallow(id) removes an entry only if it is a shallow
\* marker (nr_parent < 0); a graft with nr_parent >= 0 is never removed, and
\* the entries of other ids are left as they were.
C11_UnregisterRemovesOnlyShallow ==
    gr.fn = "unregister_shallow"
        => /\ commit_graft # gr.before
                  => \E k \in 1..Len(gr.before) :
                         /\ gr.before[k].sha1 = gr.sha1
                         /\ gr.before[k].nr_parent < 0
                         /\ commit_graft = WithoutEntry(gr.before, k)
           /\ \A k \in 1..Len(gr.before) :
                  gr.before[k].nr_parent >= 0
                      => \E j \in 1..Len(commit_graft) : commit_graft[j] = gr.before[k]

\* The array is strictly ascending by id.
StrictlyAscending(cg) ==
    \A i, j \in 1..Len(cg) : i < j => hashcmp(cg[i].sha1, cg[j].sha1) < 0

\* C15: the live part of the graft array is strictly ascending by id (so one
\* record per id), the binary search finds an id exactly when a record of it
\* is in the array, and registering an id already present leaves the number
\* of entries as it was.
C15_GraftArraySorted ==
    /\ StrictlyAscending(commit_graft)
    /\ \A sha1 \in Ids :
           (commit_graft_pos(sha1, commit_graft) >= 0)
               <=> (\E k \in 1..Len(commit_graft) : commit_graft[k].sha1 = sha1)
    /\ (/\ gr.fn = "register_commit_graft"
        /\ \E k \in 1..Len(gr.before) : gr.before[k].sha1 = gr.sha1)
           => Len(commit_graft) = Len(gr.before)

\* ------------------------------------------------------------ calls of sort_by_date

\* The lists handed to sort_by_date: any commits, a commit may be in the
\* list more than once.
SortLists == UNION { [1..n -> 1..SortCommits] : n \in 0..MaxSortLen }

InitSort ==
    /\ parents = [c \in 1..SortCommits |-> <<>>]
    /\ date \in [1..SortCommits -> 1..MaxDate]
    /\ flags = [c \in 1..SortCommits |-> {}]
    /\ mb = NoCall
    /\ queries = 0
    /\ util = [c \in 1..SortCommits |-> NULL]
    /\ tlist \in SortLists
    /\ ts = NoSort
    /\ NoGrafts
    /\ NoObjects
    /\ NoSteps

CallSortByDate ==
    /\ ts.fn = "none"
    /\ tlist' = sort_by_date(tlist)
    /\ ts' = [fn |-> "sort_by_date", lifo |-> FALSE, input |-> tlist]
    /\ UNCHANGED <<util, graphVars, mbVars, graftVars, objVars>>
    /\ UNCHANGED stepVars

\* The caller hands the sorted list on as the next list to sort.
ReturnSort ==
    /\ ts.fn = "sort_by_date"
    /\ ts' = NoSort
    /\ UNCHANGED <<tlist, util, graphVars, mbVars, graftVars, objVars>>
    /\ UNCHANGED stepVars

NextSort == CallSortByDate \/ ReturnSort

SpecSort == InitSort /\ [][NextSort]_vars

\* How many cells of the list hold commit c.
Occurrences(l, c) == Cardinality({ i \in 1..Len(l) : l[i] = c })

\* C12: sort_by_date leaves a permutation of the commits of the list (each
\* commit as many times as before), in non-increasing date order.
C12_SortByDatePermutesAndOrders ==
    ts.fn = "sort_by_date"
        => /\ Len(tlist) = Len(ts.input)
           /\ \A c \in 1..SortCommits :
                  Occurrences(tlist, c) = Occurrences(ts.input, c)
           /\ \A i \in 1..(Len(tlist) - 1) :
                  date[tlist[i]] >= date[tlist[i + 1]]

\* sort_by_date has reordered a full-length list that held commits of equal
\* date and a commit twice.
C12_Witness ==
    /\ ts.fn = "sort_by_date"
    /\ Len(ts.input) = MaxSortLen
    /\ tlist # ts.input
    /\ \E i, j \in 1..Len(ts.input) :
           i < j /\ ts.input[i] # ts.input[j]
                 /\ date[ts.input[i]] = date[ts.input[j]]
    /\ \E c \in 1..SortCommits : Occurrences(ts.input, c) = 2

\* ------------------------------------------------------------- RFC 2047 encoder

\* Bytes are 0..255; a string is a sequence of bytes.  61 is '=', 63 '?',
\* 95 '_', 32 the space, 27 ESC, 113 'q'.

\* non_ascii: the high bit set, or ESC.
non_ascii(ch) ==
    LET c == ch % 256
    IN  c >= 128 \/ c = 27

is_rfc2047_special(ch) ==
    non_ascii(ch) \/ ch = 61 \/ ch = 63 \/ ch = 95

\* The first loop of add_rfc2047: some byte sends it to needquote.
needquote(line) ==
    \E i \in 1..Len(line) :
        \/ non_ascii(line[i])
        \/ i + 1 <= Len(line) /\ line[i] = 61 /\ line[i + 1] = 63

\* One uppercase hex digit, as "%02X" prints it.
HexDigit(n) == IF n < 10 THEN 48 + n ELSE 55 + n

RECURSIVE quote_bytes(_, _, _)
\* The second loop of add_rfc2047 from byte i on: the bytes appended to sb.
quote_bytes(line, i, sb) ==
    IF i > Len(line) THEN sb
    ELSE LET ch == line[i] % 256
         IN  quote_bytes(line, i + 1,
                 IF is_rfc2047_special(ch) \/ ch = 32
                 THEN sb \o <<61, HexDigit(ch \div 16), HexDigit(ch % 16)>>
                 ELSE Append(sb, ch))

\* add_rfc2047(sb, line, len, encoding): sb after the call.
add_rfc2047(sb, line, encoding) ==
    IF ~needquote(line) THEN sb \o line
    ELSE quote_bytes(line, 1, sb \o <<61, 63>> \o encoding \o <<63, 113, 63>>)
             \o <<63, 61>>

\* The bytes a line is made of: TAB, ESC, space, '=', '?', '_', 'a', 0xE9.
LineBytes == {9, 27, 32, 61, 63, 95, 97, 233}

Lines == UNION { [1..n -> LineBytes] : n \in 0..MaxLineLen }

\* The charset names: "utf-8" and "big5".
Encodings == { <<117, 116, 102, 45, 56>>, <<98, 105, 103, 53>> }

InitRfc2047 ==
    /\ parents = <<>>
    /\ date = <<>>
    /\ flags = <<>>
    /\ mb = NoCall
    /\ queries = 0
    /\ NoTopo
    /\ NoGrafts
    /\ NoObjects
    /\ cm = NoWalk
    /\ pp \in { [fn |-> "line", line |-> l, encoding |-> e, sb |-> <<>>] :
                  l \in Lines, e \in Encodings }

CallAddRfc2047 ==
    /\ pp.fn = "line"
    /\ pp' = [pp EXCEPT !.fn = "add_rfc2047",
                        !.sb = add_rfc2047(pp.sb, pp.line, pp.encoding)]
    /\ UNCHANGED <<cm, graphVars, mbVars, topoVars, graftVars, objVars>>

NextRfc2047 == CallAddRfc2047

SpecRfc2047 == InitRfc2047 /\ [][NextRfc2047]_vars

\* ------------------------------------------------- claim on the RFC 2047 encoder

\* A decoder after RFC 2047.  An encoded-word is a token (no white space in
\* it) of the form =?charset?q?encoded-text?= made of printable ASCII, with
\* no '?' in the charset or the encoded-text; in the encoded-text =HH stands
\* for the byte HH and '_' for a space.  Anything else is plain text.
IsWhiteSpace(b) == b \in {9, 10, 13, 32}

HexValue(c) ==
    IF c \in 48..57 THEN c - 48
    ELSE IF c \in 65..70 THEN c - 55
    ELSE IF c \in 97..102 THEN c - 87
    ELSE -1

\* Where the charset of the token ends: its second '?'.
CharsetEnd(tok) == SetMin({ i \in 3..Len(tok) : tok[i] = 63 })

EncodedText(tok) == SubSeq(tok, CharsetEnd(tok) + 3, Len(tok) - 2)

IsEncodedWord(tok) ==
    /\ Len(tok) >= 8
    /\ tok[1] = 61 /\ tok[2] = 63
    /\ tok[Len(tok) - 1] = 63 /\ tok[Len(tok)] = 61
    /\ Cardinality({ i \in 1..Len(tok) : tok[i] = 63 }) = 4
    /\ \A i \in 1..Len(tok) : tok[i] \in 33..126
    /\ CharsetEnd(tok) > 3
    /\ tok[CharsetEnd(tok) + 1] \in {113, 81}
    /\ tok[CharsetEnd(tok) + 2] = 63
    /\ CharsetEnd(tok) + 3 <= Len(tok) - 2
    /\ LET t == EncodedText(tok)
       IN  \A i \in 1..Len(t) :
               t[i] = 61 => /\ i + 2 <= Len(t)
                            /\ HexValue(t[i + 1]) >= 0
                            /\ HexValue(t[i + 2]) >= 0

RECURSIVE QDecode(_, _, _)
QDecode(t, i, acc) ==
    IF i > Len(t) THEN acc
    ELSE IF t[i] = 61
    THEN QDecode(t, i + 3, Append(acc, 16 * HexValue(t[i + 1]) + HexValue(t[i + 2])))
    ELSE QDecode(t, i + 1, Append(acc, IF t[i] = 95 THEN 32 ELSE t[i]))

DecodeWord(tok) ==
    IF IsEncodedWord(tok) THEN QDecode(EncodedText(tok), 1, <<>>) ELSE tok

RECURSIVE Rfc2047Decode(_, _, _, _)
Rfc2047Decode(text, i, tok, acc) ==
    IF i > Len(text) THEN acc \o DecodeWord(tok)
    ELSE IF IsWhiteSpace(text[i])
    THEN Rfc2047Decode(text, i + 1, <<>>, acc \o DecodeWord(tok) \o <<text[i]>>)
    ELSE Rfc2047Decode(text, i + 1, Append(tok, text[i]), acc)

\* The byte needs =HH in a wrapped line, by the specification's list.
MustBeQuoted(b) == b >= 128 \/ b \in {27, 61, 63, 95, 32}

RECURSIVE QuotedBody(_, _)
QuotedBody(line, i) ==
    IF i > Len(line) THEN <<>>
    ELSE (IF MustBeQuoted(line[i])
          THEN <<61, HexDigit(line[i] \div 16), HexDigit(line[i] % 16)>>
          ELSE <<line[i]>>) \o QuotedBody(line, i + 1)

\* C13: what add_rfc2047 appends decodes, under an RFC 2047 decoder, to the
\* bytes of the line; it is either the line itself, which then holds no
\* high-bit byte, no ESC and no "=?", or =?charset?q?...?= with every
\* high-bit byte, ESC, '=', '?', '_' and space written =HH.
C13_Rfc2047RoundTrip ==
    pp.fn = "add_rfc2047"
        => /\ Rfc2047Decode(pp.sb, 1, <<>>, <<>>) = pp.line
           /\ \/ /\ pp.sb = pp.line
                 /\ \A i \in 1..Len(pp.line) :
                        /\ pp.line[i] < 128
                        /\ pp.line[i] # 27
                        /\ i < Len(pp.line) =>
                               ~(pp.line[i] = 61 /\ pp.line[i + 1] = 63)
              \/ pp.sb = <<61, 63>> \o pp.encoding \o <<63, 113, 63>>
                             \o QuotedBody(pp.line, 1) \o <<63, 61>>

\* --------------------------------------------------------------- pretty printer

\* A C string that may be NULL.
NullStr == [set |-> FALSE, bytes |-> <<>>]
Str(bytes) == [set |-> TRUE, bytes |-> bytes]

SetMax(S) == CHOOSE x \in S : \A y \in S : x >= y

\* isspace in the C locale: TAB, LF, VT, FF, CR and the space.
isspace(b) == b \in {9, 10, 11, 12, 13, 32}

\* msg[pos], positions counted from 1; the NUL that ends the string is 0.
ByteAt(msg, pos) == IF pos <= Len(msg) THEN msg[pos] ELSE 0

RECURSIVE get_one_line(_, _)
\* get_one_line(msg + pos): the length of the line, its newline included.
get_one_line(msg, pos) ==
    IF ByteAt(msg, pos) = 0 THEN 0
    ELSE IF msg[pos] = 10 THEN 1
    ELSE 1 + get_one_line(msg, pos + 1)

\* is_empty_line: the length of the line without its trailing white space.
is_empty_line(msg, pos, len) ==
    LET solid == { k \in 1..len : ~isspace(msg[pos + k - 1]) }
    IN  IF solid = {} THEN 0 ELSE SetMax(solid)

\* A scan that does not skip over the header part.
ScanWholeMessage(msg, i, in_body) ==
    \E k \in 1..Len(msg) : non_ascii(msg[k])

RECURSIVE scan_non_ascii(_, _, _)
\* The loop of pretty_print_commit that looks for a byte that is not 7-bit
\* ASCII after the header part of msg.
scan_non_ascii(msg, i, in_body) ==
    IF ByteAt(msg, i) = 0 THEN FALSE
    ELSE IF ~in_body
    THEN scan_non_ascii(msg, i + 1, msg[i] = 10 /\ ByteAt(msg, i + 1) = 10)
    ELSE IF non_ascii(msg[i]) THEN TRUE
    ELSE scan_non_ascii(msg, i + 1, in_body)

RECURSIVE pp_header(_, _, _)
\* pp_header from msg + st.pos on.  The header lines of the messages here
\* are no parent, author or committer lines and the commit is no merge, so
\* only the RAW format appends something.
pp_header(fmt, msg, st) ==
    LET linelen == get_one_line(msg, st.pos)
        moved   == [st EXCEPT !.pos = @ + linelen]
    IN  IF linelen = 0 THEN st
        ELSE IF linelen = 1 THEN moved
        ELSE IF fmt = "RAW"
        THEN pp_header(fmt, msg,
                 [moved EXCEPT !.sb = @ \o SubSeq(msg, st.pos, st.pos + linelen - 1)])
        ELSE pp_header(fmt, msg, moved)

RECURSIVE skip_blank_lines(_, _)
\* The loop that skips the blank lines at the beginning of the body.
skip_blank_lines(msg, pos) ==
    LET linelen == get_one_line(msg, pos)
    IN  IF linelen = 0 THEN pos
        ELSE IF is_empty_line(msg, pos, linelen) # 0 THEN pos
        ELSE skip_blank_lines(msg, pos + linelen)

RECURSIVE title_lines(_, _, _)
\* The loop of pp_title_line that gathers the title.
title_lines(fmt, msg, st) ==
    LET linelen == get_one_line(msg, st.pos)
        trimmed == is_empty_line(msg, st.pos, linelen)
        moved   == [st EXCEPT !.pos = @ + linelen]
        joint   == IF st.title = <<>> THEN <<>>
                   ELSE IF fmt = "EMAIL" THEN <<10, 32>> ELSE <<32>>
    IN  IF linelen = 0 \/ trimmed = 0 THEN moved
        ELSE title_lines(fmt, msg,
                 [moved EXCEPT !.title = @ \o joint
                                   \o SubSeq(msg, st.pos, st.pos + trimmed - 1)])

\* "MIME-Version: 1.0\n"
MimeVersion ==
    <<77, 73, 77, 69, 45, 86, 101, 114, 115, 105, 111, 110, 58, 32, 49, 46,
      48, 10>>

\* "Content-Type: text/plain; charset="
ContentType ==
    <<67, 111, 110, 116, 101, 110, 116, 45, 84, 121, 112, 101, 58, 32, 116,
      101, 120, 116, 47, 112, 108, 97, 105, 110, 59, 32, 99, 104, 97, 114,
      115, 101, 116, 61>>

\* "Content-Transfer-Encoding: 8bit\n"
ContentTransferEncoding ==
    <<67, 111, 110, 116, 101, 110, 116, 45, 84, 114, 97, 110, 115, 102,
      101, 114, 45, 69, 110, 99, 111, 100, 105, 110, 103, 58, 32, 56, 98,
      105, 116, 10>>

\* header_fmt of pp_title_line with the encoding put in.
mime_header(encoding) ==
    MimeVersion \o ContentType \o encoding \o <<10>> \o ContentTransferEncoding

\* pp_title_line: the position in msg and sb after.
pp_title_line(fmt, msg, st, subject, after_subject, encoding, plain_non_ascii) ==
    LET t  == title_lines(fmt, msg, [pos |-> st.pos, title |-> <<>>])
        s1 == IF subject.set
              THEN add_rfc2047(st.sb \o subject.bytes, t.title, encoding)
              ELSE st.sb \o t.title
        s2 == Append(s1, 10)
        s3 == IF plain_non_ascii THEN s2 \o mime_header(encoding) ELSE s2
        s4 == IF after_subject.set THEN s3 \o after_subject.bytes ELSE s3
        s5 == IF fmt = "EMAIL" THEN Append(s4, 10) ELSE s4
    IN  [pos |-> t.pos, sb |-> s5]

RECURSIVE pp_remainder(_, _, _, _, _)
pp_remainder(fmt, msg, st, indent, first) ==
    LET linelen == get_one_line(msg, st.pos)
        trimmed == is_empty_line(msg, st.pos, linelen)
        moved   == [st EXCEPT !.pos = @ + linelen]
    IN  IF linelen = 0 THEN moved
        ELSE IF trimmed = 0 /\ first THEN pp_remainder(fmt, msg, moved, indent, first)
        ELSE IF trimmed = 0 /\ fmt = "SHORT" THEN moved
        ELSE pp_remainder(fmt, msg,
                 [moved EXCEPT !.sb = @ \o [k \in 1..indent |-> 32]
                                   \o SubSeq(msg, st.pos, st.pos + trimmed - 1)
                                   \o <<10>>],
                 indent, FALSE)

strbuf_rtrim(sb) ==
    LET solid == { k \in 1..Len(sb) : ~isspace(sb[k]) }
    IN  IF solid = {} THEN <<>> ELSE SubSeq(sb, 1, SetMax(solid))

\* pretty_print_commit on the message msg of a commit: sb after the call.
\* The user format is empty, and the message is in the output encoding, so
\* that logmsg_reencode returns NULL.
pretty_print_commit(fmt, msg, sb, subject, after_subject, encoding) ==
    IF fmt = "USERFORMAT" THEN sb
    ELSE
    LET indent == IF fmt = "ONELINE" \/ fmt = "EMAIL" THEN 0 ELSE 4
        plain_non_ascii ==
            IF fmt = "EMAIL" /\ ~after_subject.set
            THEN scan_non_ascii(msg, 1, FALSE) ELSE FALSE
        h  == pp_header(fmt, msg, [pos |-> 1, sb |-> sb])
        h1 == IF fmt # "ONELINE" /\ ~subject.set
              THEN [h EXCEPT !.sb = Append(@, 10)] ELSE h
        h2 == [h1 EXCEPT !.pos = skip_blank_lines(msg, @)]
        t  == IF fmt = "ONELINE" \/ fmt = "EMAIL"
              THEN pp_title_line(fmt, msg, h2, subject, after_subject,
                                 encoding, plain_non_ascii)
              ELSE h2
        beginning_of_body == Len(t.sb)
        r  == IF fmt # "ONELINE" THEN pp_remainder(fmt, msg, t, indent, TRUE) ELSE t
        b1 == strbuf_rtrim(r.sb)
        b2 == IF fmt # "ONELINE" THEN Append(b1, 10) ELSE b1
    IN  IF fmt = "EMAIL" /\ Len(b2) <= beginning_of_body THEN Append(b2, 10) ELSE b2

Formats == {"RAW", "MEDIUM", "SHORT", "EMAIL", "FULL", "FULLER", "ONELINE",
            "USERFORMAT"}

\* The bytes of a commit message: LF, ESC, 'a' and 0xE9.  A commit buffer
\* begins with its tree header, never with an empty line.
MsgBytes == {10, 27, 97, 233}

Messages ==
    { m \in UNION { [1..n -> MsgBytes] : n \in 1..MaxMsgLen } : m[1] # 10 }

\* The subject prefix "S: " or none; the extra header "X: y\n" or none.
Subjects == { NullStr, Str(<<83, 58, 32>>) }

AfterSubjects == { NullStr, Str(<<88, 58, 32, 121, 10>>) }

InitPretty ==
    /\ parents = <<>>
    /\ date = <<>>
    /\ flags = <<>>
    /\ mb = NoCall
    /\ queries = 0
    /\ NoTopo
    /\ NoGrafts
    /\ NoObjects
    /\ cm = NoWalk
    /\ pp \in { [fn |-> "commit", fmt |-> f, msg |-> m, subject |-> s,
                 after_subject |-> a, encoding |-> e, sb |-> <<>>] :
                  f \in Formats, m \in Messages, s \in Subjects,
                  a \in AfterSubjects, e \in Encodings }

CallPrettyPrintCommit ==
    /\ pp.fn = "commit"
    /\ pp' = [pp EXCEPT !.fn = "pretty_print_commit",
                        !.sb = pretty_print_commit(pp.fmt, pp.msg, pp.sb,
                                   pp.subject, pp.after_subject, pp.encoding)]
    /\ UNCHANGED <<cm, graphVars, mbVars, topoVars, graftVars, objVars>>

NextPretty == CallPrettyPrintCommit

SpecPretty == InitPretty /\ [][NextPretty]_vars

\* -------------------------------------------------- claim on the MIME preamble

\* The piece occurs in the buffer.
Occurs(piece, buf) ==
    \E k \in 0..(Len(buf) - Len(piece)) :
        SubSeq(buf, k + 1, k + Len(piece)) = piece

\* The three lines of the preamble for the charset.
MimePreamble(charset) ==
    MimeVersion \o ContentType \o charset \o <<10>> \o ContentTransferEncoding

\* The message holds an empty line at i, and a high-bit byte or an ESC
\* somewhere after it.
EightBitAfterFirstBlankLine(msg) ==
    \E i \in 1..Len(msg) :
        /\ msg[i] = 10
        /\ i < Len(msg) /\ msg[i + 1] = 10
        /\ \E k \in (i + 1)..Len(msg) : msg[k] >= 128 \/ msg[k] = 27

\* C14: the e-mail format emits the MIME preamble exactly when no
\* after_subject header is supplied and the message holds a high-bit byte or
\* an ESC after its first blank line; no other format emits any line of it.
C14_MimePreambleIff ==
    pp.fn = "pretty_print_commit"
        => /\ pp.fmt = "EMAIL" =>
                  (Occurs(MimePreamble(pp.encoding), pp.sb)
                       <=> /\ ~pp.after_subject.set
                           /\ EightBitAfterFirstBlankLine(pp.msg))
           /\ pp.fmt # "EMAIL" =>
                  /\ ~Occurs(MimeVersion, pp.sb)
                  /\ ~Occurs(ContentType, pp.sb)
                  /\ ~Occurs(ContentTransferEncoding, pp.sb)

C14_Witness ==
    /\ pp.fn = "pretty_print_commit"
    /\ pp.fmt = "EMAIL"
    /\ ~pp.after_subject.set
    /\ non_ascii(pp.msg[1])
    /\ EightBitAfterFirstBlankLine(pp.msg)
    /\ Occurs(MimePreamble(pp.encoding), pp.sb)

\* ------------------------------------------- the mark scrubber, call by call

\* clear_commit_marks as the machine runs it: cm.stack holds one frame per
\* call that has not returned, the innermost last; a frame is the commit of
\* the call and the place of `parents' in the commit's parent list.
\* cm.visits counts the calls made on each commit.

WCommits == 1..WalkCommits

\* Parent lists of up to two different commits; a commit may be its own
\* parent and the parent edges may form cycles.
WalkParentLists ==
    { <<>> } \cup { <<x>> : x \in WCommits }
             \cup { l \in [1..2 -> WCommits] : l[1] # l[2] }

WalkMarks == { {PARENT1}, {PARENT1, PARENT2} }

WalkFlags == { {}, {PARENT1}, {PARENT2} }

\* Have we already cleared this?  (mark & parent->object.flags)
AlwaysMarked(mark, fl, parent) == TRUE

is_marked(mark, fl, parent) == mark \cap fl[parent] # {}

InitMarks ==
    /\ parents \in [WCommits -> WalkParentLists]
    /\ date = [c \in WCommits |-> 0]
    /\ flags \in [WCommits -> WalkFlags]
    /\ mb = NoCall
    /\ queries = 0
    /\ NoTopo
    /\ NoGrafts
    /\ NoObjects
    /\ pp = NoPrint
    /\ cm \in { [fn |-> "call", commit |-> c, mark |-> m, stack |-> <<>>,
                 visits |-> [x \in WCommits |-> 0]] :
                  c \in WCommits, m \in WalkMarks }

\* The entry of a call on commit: commit->object.flags &= ~mark;
\* parents = commit->parents.
enter_call(commit, w, fl) ==
    [cm    |-> [w EXCEPT !.fn = "clear_commit_marks",
                         !.stack = Append(@, [commit |-> commit, next |-> 1]),
                         !.visits[commit] = @ + 1],
     flags |-> [fl EXCEPT ![commit] = @ \ w.mark]]

\* The caller's call.
CallClearCommitMarks ==
    /\ cm.fn = "call"
    /\ \E r \in { enter_call(cm.commit, cm, flags) } :
           /\ cm' = r.cm
           /\ flags' = r.flags
    /\ UNCHANGED <<pp, graphVars, mb, queries, topoVars, graftVars, objVars>>

\* The frame on top, with `parents' moved to parents->next.
Advanced(w) == [w EXCEPT !.stack[Len(w.stack)].next = @ + 1]

\* One turn of the loop on a parent that still has a bit of the mark: the
\* recursive call.
RecurseIntoParent ==
    /\ cm.fn = "clear_commit_marks"
    /\ LET top == cm.stack[Len(cm.stack)]
       IN  /\ top.next <= Len(parents[top.commit])
           /\ is_marked(cm.mark, flags, parents[top.commit][top.next])
           /\ \E r \in { enter_call(parents[top.commit][top.next],
                                    Advanced(cm), flags) } :
                  /\ cm' = r.cm
                  /\ flags' = r.flags
    /\ UNCHANGED <<pp, graphVars, mb, queries, topoVars, graftVars, objVars>>

\* One turn of the loop on a parent that has no bit of the mark.
SkipParent ==
    /\ cm.fn = "clear_commit_marks"
    /\ LET top == cm.stack[Len(cm.stack)]
       IN  /\ top.next <= Len(parents[top.commit])
           /\ ~is_marked(cm.mark, flags, parents[top.commit][top.next])
           /\ cm' = Advanced(cm)
    /\ UNCHANGED <<pp, graphVars, mbVars, topoVars, graftVars, objVars>>

\* `parents' is NULL: the innermost call returns.
ReturnClearCommitMarks ==
    /\ cm.fn = "clear_commit_marks"
    /\ LET top == cm.stack[Len(cm.stack)]
       IN  /\ top.next > Len(parents[top.commit])
           /\ cm' = [cm EXCEPT !.stack = SubSeq(@, 1, Len(@) - 1),
                               !.fn = IF Len(cm.stack) = 1 THEN "returned"
                                      ELSE @]
    /\ UNCHANGED <<pp, graphVars, mbVars, topoVars, graftVars, objVars>>

NextMarks ==
    \/ CallClearCommitMarks
    \/ RecurseIntoParent
    \/ SkipParent
    \/ ReturnClearCommitMarks

SpecMarks == InitMarks /\ [][NextMarks]_vars

\* The machine runs the call as long as it has a step to take.
FairSpecMarks == SpecMarks /\ WF_vars(NextMarks)

\* -------------------------------------------------- claim on the mark scrubber

OnCycle(c) ==
    \E n \in 1..WalkCommits :
        \E path \in [1..(n + 1) -> WCommits] :
            /\ path[1] = c /\ path[n + 1] = c
            /\ \A k \in 1..n : path[k + 1] \in Range(parents[path[k]])

\* C16: on every parent graph, cycles included, every root and every mark
\* that is not zero, no commit is visited twice and the call returns.
C16_ClearCommitMarksTerminates ==
    /\ [](cm.fn # "none" => \A c \in WCommits : cm.visits[c] <= 1)
    /\ <>(cm.fn = "returned")

\* The call has returned from a root on a cycle, having visited all commits.
C16_Witness ==
    /\ cm.fn = "returned"
    /\ OnCycle(cm.commit)
    /\ \A c \in WCommits : cm.visits[c] = 1

\* ------------------------------------------- sorting a list of any parent graph

\* Any parent lists over the commits: a commit may be its own parent, a
\* parent may repeat, and the parent edges may form cycles.
AnyParentLists == UNION { [1..n -> TCommits] : n \in 0..TopoParents }

InitTopoCycles ==
    /\ parents \in [TCommits -> AnyParentLists]
    /\ date \in [TCommits -> 1..MaxDate]
    /\ flags = [c \in TCommits |-> {}]
    /\ mb = NoCall
    /\ queries = 0
    /\ util = [c \in TCommits |-> NULL]
    /\ tlist \in DistinctLists
    /\ ts = NoSort
    /\ NoGrafts
    /\ NoObjects
    /\ NoSteps

\* A call of a caller that keeps to the rule on the aux slots: none is set
\* when the sorter is entered.
CallSortOnAnyGraph(lifo) ==
    /\ \A c \in TCommits : util[c] = NULL
    /\ CallSortInTopologicalOrder(lifo)

NextTopoCycles == \E lifo \in BOOLEAN : CallSortOnAnyGraph(lifo)

SpecTopoCycles == InitTopoCycles /\ [][NextTopoCycles]_vars

\* Some commit of the list is on a cycle of parent edges within the list.
CycleInList(list_) ==
    \E n \in 1..TopoCommits :
        \E path \in [1..(n + 1) -> Range(list_)] :
            /\ path[1] = path[n + 1]
            /\ \A k \in 1..n : path[k + 1] \in Range(parents[path[k]])

\* C18: with a cycle inside the list, the list that sort_in_topological_order
\* returns still holds every commit of the input, and no commit keeps an aux
\* record of the array the call has freed.
C18_CycleKeepsCommitsAndAux ==
    (ts.fn = "sort_in_topological_order" /\ CycleInList(ts.input)) =>
        /\ Range(tlist) = Range(ts.input)
        /\ \A c \in TCommits : util[c] = NULL

\* ------------------------------------- get_merge_bases, loop turn by loop turn

\* get_merge_bases as the machine runs it on any parent graph.  mb holds the
\* arguments and the locals: a and b are the arguments of the merge_bases
\* call in progress, list and result its two lists, rslt the array of the
\* pairwise reduction with its indices i < j (slots from 1; i = 0 while the
\* first merge_bases call runs), ret the list returned.

BCommits == 1..BaseCommits

\* Parent lists of up to two different commits; a commit may be its own
\* parent and the parent edges may form cycles.
BaseParentLists ==
    { <<>> } \cup { <<x>> : x \in BCommits }
             \cup { l \in [1..2 -> BCommits] : l[1] # l[2] }

RECURSIVE Edges(_, _)
Edges(ps, c) == IF c = 0 THEN 0 ELSE Len(ps[c]) + Edges(ps, c - 1)

\* The parent graphs of up to MaxEdges parent edges.
BaseGraphs ==
    { ps \in [BCommits -> BaseParentLists] : Edges(ps, BaseCommits) <= MaxEdges }

\* The arguments: the graphs and the dates are all there is under every
\* renaming of the commits, so the call is on commit 1 with itself or with
\* commit 2.
InitBases ==
    /\ parents \in BaseGraphs
    /\ date \in [BCommits -> 1..MaxDate]
    /\ flags = [c \in BCommits |-> {}]
    /\ mb \in { [fn |-> "call", one |-> 1, two |-> two, cleanup |-> cleanup,
                 a |-> NULL, b |-> NULL, list |-> <<>>, result |-> <<>>,
                 rslt |-> <<>>, i |-> 0, j |-> 0, ret |-> <<>>] :
                  two \in 1..2, cleanup \in BOOLEAN }
    /\ queries = 0
    /\ NoTopo
    /\ NoGrafts
    /\ NoObjects
    /\ NoSteps

\* The entry of merge_bases(a, b) for a # b, up to its main loop.
enter_merge_bases(a, b, m, fl) ==
    [mb    |-> [m EXCEPT !.fn = "merge_bases", !.a = a, !.b = b,
                         !.list = insert_by_date(b, insert_by_date(a, <<>>)),
                         !.result = <<>>],
     flags |-> [fl EXCEPT ![a] = @ \cup {PARENT1}, ![b] = fl[b] \cup {PARENT2}]]

\* get_merge_bases(one, one): merge_bases returns the list of one and marks
\* nothing.
ReturnSameCommit ==
    /\ mb.fn = "call"
    /\ mb.one = mb.two
    /\ mb' = [mb EXCEPT !.fn = "returned",
                        !.ret = commit_list_insert(mb.one, <<>>)]
    /\ UNCHANGED <<graphVars, flags, queries, topoVars, graftVars, objVars, stepVars>>

\* The first merge_bases call.
EnterFirstMergeBases ==
    /\ mb.fn = "call"
    /\ mb.one # mb.two
    /\ \E r \in { enter_merge_bases(mb.one, mb.two, mb, flags) } :
           /\ mb' = r.mb
           /\ flags' = r.flags
    /\ UNCHANGED <<graphVars, queries, topoVars, graftVars, objVars, stepVars>>

\* One turn of merge_bases' main loop.
MergeRound ==
    /\ mb.fn = "merge_bases"
    /\ interesting(mb.list, flags) # NULL
    /\ \E st \in { merge_round([flags |-> flags, list |-> mb.list,
                                result |-> mb.result]) } :
           /\ flags' = st.flags
           /\ mb' = [mb EXCEPT !.list = st.list, !.result = st.result]
    /\ UNCHANGED <<graphVars, queries, topoVars, graftVars, objVars, stepVars>>

\* The first merge_bases call is through its main loop and returns at most
\* one commit: get_merge_bases returns it.
ReturnFewBases ==
    /\ mb.fn = "merge_bases"
    /\ mb.i = 0
    /\ interesting(mb.list, flags) = NULL
    /\ \E r \in { remove_stale(mb.result, flags, <<>>) } :
           /\ Len(r) <= 1
           /\ mb' = [mb EXCEPT !.fn = "returned", !.list = <<>>,
                               !.result = r, !.ret = r]
           /\ flags' = IF mb.cleanup THEN clear_both(mb.one, mb.two, flags)
                       ELSE flags
    /\ UNCHANGED <<graphVars, queries, topoVars, graftVars, objVars, stepVars>>

\* "There are more than one": the results go into rslt, the marks are
\* cleared and the pairwise loops begin.
StartReduction ==
    /\ mb.fn = "merge_bases"
    /\ mb.i = 0
    /\ interesting(mb.list, flags) = NULL
    /\ \E r \in { remove_stale(mb.result, flags, <<>>) } :
           /\ Len(r) > 1
           /\ mb' = [mb EXCEPT !.fn = "pairwise", !.list = <<>>,
                               !.result = r, !.rslt = r, !.i = 1, !.j = 2]
           /\ flags' = clear_both(mb.one, mb.two, flags)
    /\ UNCHANGED <<graphVars, queries, topoVars, graftVars, objVars, stepVars>>

\* One turn of the inner loop: continue on a slot that is NULL, or else
\* call merge_bases(rslt[i], rslt[j]).
PairTurn ==
    /\ mb.fn = "pairwise"
    /\ mb.i <= Len(mb.rslt) - 1
    /\ mb.j <= Len(mb.rslt)
    /\ IF mb.rslt[mb.i] = NULL \/ mb.rslt[mb.j] = NULL
       THEN /\ mb' = [mb EXCEPT !.j = @ + 1]
            /\ flags' = flags
       ELSE \E r \in { enter_merge_bases(mb.rslt[mb.i], mb.rslt[mb.j],
                                         mb, flags) } :
                /\ mb' = r.mb
                /\ flags' = r.flags
    /\ UNCHANGED <<graphVars, queries, topoVars, graftVars, objVars, stepVars>>

\* A merge_bases call of the pairwise loop is through its main loop: the
\* marks are cleared and the slots it returned are set to NULL.
FinishPair ==
    /\ mb.fn = "merge_bases"
    /\ mb.i > 0
    /\ interesting(mb.list, flags) = NULL
    /\ \E r \in { remove_stale(mb.result, flags, <<>>) } :
           /\ mb' = [mb EXCEPT
                       !.fn = "pairwise", !.list = <<>>, !.result = r,
                       !.rslt[mb.i] = IF @ \in Range(r) THEN NULL ELSE @,
                       !.rslt[mb.j] = IF @ \in Range(r) THEN NULL ELSE @,
                       !.j = @ + 1]
           /\ flags' = clear_both(mb.rslt[mb.i], mb.rslt[mb.j], flags)
    /\ UNCHANGED <<graphVars, queries, topoVars, graftVars, objVars, stepVars>>

\* The inner loop is through: the next turn of the outer loop.
NextRow ==
    /\ mb.fn = "pairwise"
    /\ mb.i <= Len(mb.rslt) - 1
    /\ mb.j > Len(mb.rslt)
    /\ mb' = [mb EXCEPT !.i = @ + 1, !.j = mb.i + 2]
    /\ UNCHANGED <<graphVars, flags, queries, topoVars, graftVars, objVars, stepVars>>

\* "Surviving ones in rslt[] are the independent results".
ReturnSurvivors ==
    /\ mb.fn = "pairwise"
    /\ mb.i > Len(mb.rslt) - 1
    /\ mb' = [mb EXCEPT !.fn = "returned", !.ret = surviving(mb.rslt, 1, <<>>)]
    /\ UNCHANGED <<graphVars, flags, queries, topoVars, graftVars, objVars, stepVars>>

NextBases ==
    \/ ReturnSameCommit
    \/ EnterFirstMergeBases
    \/ MergeRound
    \/ ReturnFewBases
    \/ StartReduction
    \/ PairTurn
    \/ FinishPair
    \/ NextRow
    \/ ReturnSurvivors

SpecBases == InitBases /\ [][NextBases]_vars

\* The machine runs the call as long as it has a step to take.
FairSpecBases == SpecBases /\ WF_vars(NextBases)

\* ------------------------------------------- claim on get_merge_bases' termination

\* How often the commit is in the list.
Entries(c, list_) == Cardinality({ k \in 1..Len(list_) : list_[k] = c })

WalkBits == {PARENT1, PARENT2, STALE}

\* A step of the main loop pops the head of the working list; every commit
\* that is in the list more often after the step than in what the pop left
\* has a flag bit among PARENT1, PARENT2 and STALE that it did not have.
InsertedOnlyOnGain ==
    (mb.fn = "merge_bases" /\ mb'.fn = "merge_bases") =>
        \A c \in BCommits :
            Entries(c, mb'.list) > Entries(c, Tail(mb.list))
                => (flags'[c] \cap WalkBits) \ flags[c] # {}

\* C19: on every parent graph, cycles included, and every date assignment, a
\* commit enters the working list only when it gains a bit of PARENT1,
\* PARENT2, STALE, and get_merge_bases returns: the main loop, the pairwise
\* reduction and the clearing of the flags all come to an end.
C19_GetMergeBasesTerminates ==
    /\ [][InsertedOnlyOnGain]_vars
    /\ <>(mb.fn = "returned")

\* get_merge_bases has returned from the pairwise reduction on arguments that
\* are on a cycle of the parent graph.
C19_Witness ==
    /\ mb.fn = "returned"
    /\ Len(mb.rslt) >= 2
    /\ mb.one \in Closure(Range(parents[mb.one]))
    /\ mb.two \in Closure(Range(parents[mb.two]))

====
